---------------------------- MODULE Spec2Model ----------------------------
(***************************************************************************)
(* A model of text-similarity-node: the Unicode text model, the edit       *)
(* kernels (Levenshtein, Hamming), the algorithm base class, the           *)
(* similarity engine (configuration merge, result cache, batch), the calls *)
(* a host makes through the bindings, concurrent calls on a full cache,    *)
(* and the asynchronous executor (worker pool, shutdown).                  *)
(*                                                                         *)
(* Strings are sequences of code points at the caller, UTF-8 byte          *)
(* sequences at the engine's interface (std::string) and code-point        *)
(* sequences again inside UnicodeString.  A similarity (a double in the    *)
(* code) is an exact fraction <<numerator, denominator>> in lowest terms.  *)
(* An optional<T> is a set with at most one element.                       *)
(***************************************************************************)
EXTENDS Integers, Sequences, FiniteSets, TLC

(***************************************************************************)
(* Bounds of the model.                                                    *)
(***************************************************************************)
\* longest input string (in code points) of the Levenshtein specification
MaxLen == 3
\* longest input string (in code points) of the kernel specification
MaxKernelLen == 2
\* largest threshold of the kernel specification
MaxThreshold == 2
\* longest input string (in code points) of the cache-key specification
MaxKeyLen == 2
\* number of engine operations in one behaviour of the engine specification
MaxCalls == 2
\* longest batch of the engine specification
MaxBatch == 2
\* number of submissions in one behaviour of the executor specification
MaxTasks == 3
\* number of worker threads of the executor
NumWorkers == 2

(***************************************************************************)
(* Program constants.                                                      *)
(***************************************************************************)
MAX_STRING_LENGTH == 100000
MAX_CACHE_SIZE == 10000
\* minutes
CACHE_TTL == 5

\* AlgorithmType
Levenshtein == 0
Hamming == 2
Jaccard == 5
SorensenDice == 6
Tversky == 8
Cosine == 9
JaroWinkler == 4
\* PreprocessingMode
PreNone == 0
PreCharacter == 1
PreWord == 2
PreNGram == 3
\* NormalizationMode
NormNone == 0
NormSimilarity == 2
\* CaseSensitivity
Sensitive == 0
Insensitive == 1

(***************************************************************************)
(* Small arithmetic helpers.                                               *)
(***************************************************************************)
Min2(a, b) == IF a <= b THEN a ELSE b
Max2(a, b) == IF a >= b THEN a ELSE b
Min3(a, b, c) == Min2(a, Min2(b, c))
Abs(a) == IF a < 0 THEN -a ELSE a

RECURSIVE GCD(_, _)
GCD(a, b) == IF b = 0 THEN a ELSE GCD(b, a % b)

\* the double n/d, as a fraction in lowest terms (d > 0)
Frac(n, d) ==
  LET g == GCD(Abs(n), d)
  IN  <<n \div g, d \div g>>

\* bit operations on bytes and code points
BitAnd3F(c) == c % 64
Or20(c) == IF (c \div 32) % 2 = 1 THEN c ELSE c + 32

(***************************************************************************)
(* UTF-8 (core/unicode.cpp).                                               *)
(***************************************************************************)
\* s[i] of a std::string, 0-based; s[size()] is the terminating NUL
ByteAt(s, i) == IF i < Len(s) THEN s[i + 1] ELSE 0

Utf8EncodeChar(c) ==
  IF c < 128 THEN <<c>>
  ELSE IF c < 2048 THEN <<192 + (c \div 64), 128 + BitAnd3F(c)>>
  ELSE IF c < 65536
    THEN <<224 + (c \div 4096), 128 + BitAnd3F(c \div 64), 128 + BitAnd3F(c)>>
    ELSE <<240 + (c \div 262144), 128 + BitAnd3F(c \div 4096),
           128 + BitAnd3F(c \div 64), 128 + BitAnd3F(c)>>

RECURSIVE utf32_to_utf8(_)
utf32_to_utf8(s) ==
  IF s = <<>> THEN <<>> ELSE Utf8EncodeChar(Head(s)) \o utf32_to_utf8(Tail(s))

RECURSIVE Utf8DecodeFrom(_, _)
Utf8DecodeFrom(s, i) ==
  IF i >= Len(s) THEN <<>>
  ELSE LET c1 == ByteAt(s, i)
       IN  IF c1 < 128 THEN <<c1>> \o Utf8DecodeFrom(s, i + 1)
           ELSE IF c1 < 224
             THEN <<(c1 % 32) * 64 + BitAnd3F(ByteAt(s, i + 1))>>
                  \o Utf8DecodeFrom(s, i + 2)
           ELSE IF c1 < 240
             THEN <<(c1 % 16) * 4096 + BitAnd3F(ByteAt(s, i + 1)) * 64
                    + BitAnd3F(ByteAt(s, i + 2))>>
                  \o Utf8DecodeFrom(s, i + 3)
             ELSE <<(c1 % 8) * 262144 + BitAnd3F(ByteAt(s, i + 1)) * 4096
                    + BitAnd3F(ByteAt(s, i + 2)) * 64
                    + BitAnd3F(ByteAt(s, i + 3))>>
                  \o Utf8DecodeFrom(s, i + 4)

utf8_to_utf32(s) == Utf8DecodeFrom(s, 0)

\* UnicodeString(std::string): keeps the bytes and decodes them
UnicodeStringFromUtf8(bytes) == [utf8 |-> bytes, unicode |-> utf8_to_utf32(bytes)]
\* UnicodeString(std::u32string): keeps the code points and encodes them
UnicodeStringFromUtf32(cps) == [utf8 |-> utf32_to_utf8(cps), unicode |-> cps]

USLength(us) == Len(us.unicode)
USEmpty(us) == us.unicode = <<>>
\* operator==: compares the code-point sequences
USEqual(a, b) == a.unicode = b.unicode

(***************************************************************************)
(* Case folding table and to_lower (core/unicode.cpp).                     *)
(***************************************************************************)
RECURSIVE RangePairs(_, _, _)
RangePairs(lo, hi, delta) ==
  IF lo > hi THEN <<>> ELSE <<<<lo, lo + delta>>>> \o RangePairs(lo + 1, hi, delta)

\* the table in its source order: ASCII, Latin-1, Greek, Greek accented, Cyrillic
uppercase_to_lowercase_basic ==
  RangePairs(65, 90, 32)
  \o RangePairs(192, 214, 32) \o RangePairs(216, 222, 32)
  \o RangePairs(913, 929, 32) \o RangePairs(931, 937, 32)
  \o << <<902, 940>>, <<904, 941>>, <<905, 942>>, <<906, 943>>,
        <<908, 972>>, <<910, 973>>, <<911, 974>> >>
  \o RangePairs(1040, 1071, 32)

\* std::lower_bound over the table: first (0-based) and the count left
RECURSIVE LowerBound(_, _, _)
LowerBound(first, count, c) ==
  IF count <= 0 THEN first
  ELSE LET half == count \div 2
           middle == first + half
       IN  IF uppercase_to_lowercase_basic[middle + 1][1] < c
             THEN LowerBound(middle + 1, count - half - 1, c)
             ELSE LowerBound(first, half, c)

unicode_tolower_optimized(c) ==
  IF c >= 65 /\ c <= 90 THEN c + 32
  ELSE LET n == Len(uppercase_to_lowercase_basic)
           found == LowerBound(0, n, c)
       IN  IF found < n /\ uppercase_to_lowercase_basic[found + 1][1] = c
             THEN uppercase_to_lowercase_basic[found + 1][2]
           ELSE IF c = 962 THEN 963
           ELSE c

to_lower(us) ==
  UnicodeStringFromUtf32(
    [i \in 1..Len(us.unicode) |-> unicode_tolower_optimized(us.unicode[i])])

(***************************************************************************)
(* Results (core/types.hpp).  A similarity result carries a fraction, a    *)
(* distance result a uint32.                                               *)
(***************************************************************************)
SimOk(v) == [ok |-> TRUE, value |-> v, code |-> "Success"]
SimErr(c) == [ok |-> FALSE, value |-> <<0, 1>>, code |-> c]
DistOk(d) == [ok |-> TRUE, value |-> d, code |-> "Success"]
DistErr(c) == [ok |-> FALSE, value |-> 0, code |-> c]

One == <<1, 1>>
Zero == <<0, 1>>

(***************************************************************************)
(* Character comparison (algorithms/levenshtein.cpp).                      *)
(***************************************************************************)
is_ascii_char(c) == c < 128

is_ascii_string(bytes) == \A i \in 1..Len(bytes) : is_ascii_char(bytes[i])

ascii_chars_equal_ignore_case(a, b) == Or20(a) = Or20(b)

fold(c) ==
  IF c >= 65 /\ c <= 90 THEN c + 32
  ELSE IF c >= 192 /\ c <= 222 /\ c # 215 THEN c + 32
  ELSE IF c >= 913 /\ c <= 937 THEN c + 32
  ELSE IF c >= 1040 /\ c <= 1071 THEN c + 32
  ELSE c

unicode_chars_equal(a, b, case_sensitive) ==
  IF case_sensitive THEN a = b
  ELSE IF a < 128 /\ b < 128 THEN ascii_chars_equal_ignore_case(a, b)
  ELSE fold(a) = fold(b)

(***************************************************************************)
(* Levenshtein, single row (algorithms/levenshtein.cpp).  The row is a     *)
(* function on 0..len1; the inner loop runs i = 1..len1 for one j.         *)
(***************************************************************************)
\* the comparison of one cell: code points on the Unicode path, bytes
\* (each OR-ed with 0x20 when insensitive) on the ASCII byte path
CellEqual(a, b, byte_path, case_sensitive) ==
  IF byte_path
    THEN (IF case_sensitive THEN a = b ELSE Or20(a) = Or20(b))
    ELSE unicode_chars_equal(a, b, case_sensitive)

RECURSIVE SingleRowInner(_, _, _, _, _, _, _, _)
SingleRowInner(row, previous_diagonal, i, j, s1, s2, byte_path, case_sensitive) ==
  IF i > Len(s1) THEN row
  ELSE LET previous_current == row[i]
           cell == IF CellEqual(s1[i], s2[j], byte_path, case_sensitive)
                     THEN previous_diagonal
                     ELSE 1 + Min3(row[i], row[i - 1], previous_diagonal)
       IN  SingleRowInner([row EXCEPT ![i] = cell], previous_current,
                          i + 1, j, s1, s2, byte_path, case_sensitive)

RECURSIVE SingleRowOuter(_, _, _, _, _, _)
SingleRowOuter(row, j, s1, s2, byte_path, case_sensitive) ==
  IF j > Len(s2) THEN row
  ELSE SingleRowOuter(
         SingleRowInner([row EXCEPT ![0] = j], row[0], 1, j, s1, s2,
                        byte_path, case_sensitive),
         j + 1, s1, s2, byte_path, case_sensitive)

\* the loops shared by compute_distance_single_row and compute_distance_simd
\* once the shorter string is first
SingleRowLoops(s1, s2, byte_path, case_sensitive) ==
  SingleRowOuter([i \in 0..Len(s1) |-> i], 1, s1, s2,
                 byte_path, case_sensitive)[Len(s1)]

compute_distance_single_row(s1, s2, config) ==
  LET case_sensitive == config.case_sensitivity = Sensitive
  IN  IF Len(s1) > Len(s2)
        THEN SingleRowLoops(s2, s1, FALSE, case_sensitive)
        ELSE SingleRowLoops(s1, s2, FALSE, case_sensitive)

\* a byte path that folds case whatever the config says
compute_distance_simd_always_folding(s1, s2, config) ==
  IF Len(s1) > Len(s2)
    THEN SingleRowLoops(s2, s1, TRUE, FALSE)
    ELSE SingleRowLoops(s1, s2, TRUE, FALSE)

compute_distance_simd(s1, s2, config) ==
  LET case_sensitive == config.case_sensitivity = Sensitive
  IN  IF Len(s1) > Len(s2)
        THEN SingleRowLoops(s2, s1, TRUE, case_sensitive)
        ELSE SingleRowLoops(s1, s2, TRUE, case_sensitive)

(***************************************************************************)
(* Levenshtein with a threshold: the banded variant.  Both rows are        *)
(* functions on 0..2*band_width; cell (i, j) lives at band_width + i - j.  *)
(* The thresholds of the model are far below 2^32 - 1, so the uint32       *)
(* max_distance + 1 never wraps.                                           *)
(***************************************************************************)
RECURSIVE BandInner(_, _, _, _, _, _, _, _, _, _)
BandInner(cur, prev, found, i, max_i, j, s1, s2, max_distance, case_sensitive) ==
  IF i > max_i THEN [row |-> cur, found_valid |-> found]
  ELSE LET band_width == max_distance + 1
           sentinel == max_distance + 1
           idx == band_width + i - j
           c0 == sentinel
           c1 == IF idx > 0 THEN Min2(c0, cur[idx - 1] + 1) ELSE c0
           c2 == IF idx < 2 * band_width THEN Min2(c1, prev[idx + 1] + 1) ELSE c1
           c3 == Min2(c2, prev[idx] + 1)
           cell == IF unicode_chars_equal(s1[i], s2[j], case_sensitive)
                     THEN prev[idx]
                     ELSE c3
       IN  BandInner([cur EXCEPT ![idx] = cell], prev,
                     found \/ cell <= max_distance,
                     i + 1, max_i, j, s1, s2, max_distance, case_sensitive)

RECURSIVE BandOuter(_, _, _, _, _, _)
BandOuter(previous_row, j, s1, s2, max_distance, case_sensitive) ==
  LET band_width == max_distance + 1
      sentinel == max_distance + 1
      len1 == Len(s1)
      len2 == Len(s2)
  IN  IF j > len2
        THEN Min2(previous_row[band_width + len1 - len2], sentinel)
        ELSE LET filled == [k \in 0..(2 * band_width) |-> sentinel]
                 min_i == IF j > band_width THEN j - band_width ELSE 1
                 max_i == Min2(len1, j + band_width)
                 start == IF j <= band_width
                            THEN [filled EXCEPT ![band_width] = j]
                            ELSE filled
                 r == BandInner(start, previous_row, FALSE, min_i, max_i, j,
                                s1, s2, max_distance, case_sensitive)
             IN  IF ~r.found_valid
                   THEN sentinel
                   ELSE BandOuter(r.row, j + 1, s1, s2, max_distance,
                                  case_sensitive)

compute_distance_with_threshold(s1, s2, max_distance, config) ==
  LET len1 == Len(s1)
      len2 == Len(s2)
      band_width == max_distance + 1
      sentinel == max_distance + 1
      case_sensitive == config.case_sensitivity = Sensitive
      initial == [k \in 0..(2 * band_width) |->
                    IF k >= band_width /\ k - band_width <= Min2(band_width, len1)
                      THEN k - band_width
                      ELSE sentinel]
  IN  IF Abs(len1 - len2) > max_distance
        THEN sentinel
        ELSE BandOuter(initial, 1, s1, s2, max_distance, case_sensitive)

\* the threshold is a double in the code, cast to uint32; the model's
\* thresholds are whole numbers
compute_distance_optimized(s1, s2, config) ==
  IF config.threshold # {}
    THEN compute_distance_with_threshold(
           s1, s2, CHOOSE t \in config.threshold : TRUE, config)
    ELSE compute_distance_single_row(s1, s2, config)

\* x86: the build takes the #if branch of the ASCII byte path
LevenshteinDistanceImpl(s1, s2, config, x86) ==
  IF USEmpty(s1) THEN DistOk(USLength(s2))
  ELSE IF USEmpty(s2) THEN DistOk(USLength(s1))
  ELSE IF USEqual(s1, s2) THEN DistOk(0)
  ELSE IF x86 /\ is_ascii_string(s1.utf8) /\ is_ascii_string(s2.utf8)
    THEN DistOk(compute_distance_simd(s1.utf8, s2.utf8, config))
    ELSE DistOk(compute_distance_optimized(s1.unicode, s2.unicode, config))

distance_to_similarity(distance, max_length) ==
  IF max_length = 0 THEN One ELSE Frac(max_length - distance, max_length)

LevenshteinSimilarityImpl(s1, s2, config, x86) ==
  LET distance_result == LevenshteinDistanceImpl(s1, s2, config, x86)
      max_len == Max2(USLength(s1), USLength(s2))
  IN  IF ~distance_result.ok THEN SimErr(distance_result.code)
      ELSE IF max_len = 0 THEN SimOk(One)
      ELSE SimOk(distance_to_similarity(distance_result.value, max_len))

(***************************************************************************)
(* Hamming (algorithms/levenshtein.cpp).                                   *)
(***************************************************************************)
compute_hamming_distance(s1, s2, config) ==
  LET case_sensitive == config.case_sensitivity = Sensitive
  IN  Cardinality({i \in 1..Len(s1) :
                     ~unicode_chars_equal(s1[i], s2[i], case_sensitive)})

compute_hamming_simd(s1, s2, config) ==
  LET case_sensitive == config.case_sensitivity = Sensitive
      c(b) == IF case_sensitive THEN b ELSE Or20(b)
  IN  Cardinality({i \in 1..Len(s1) : c(s1[i]) # c(s2[i])})

HammingDistanceImpl(s1, s2, config) ==
  IF USLength(s1) # USLength(s2) THEN DistErr("InvalidInput")
  ELSE IF USEqual(s1, s2) THEN DistOk(0)
  ELSE IF is_ascii_string(s1.utf8) /\ is_ascii_string(s2.utf8)
    THEN DistOk(compute_hamming_simd(s1.utf8, s2.utf8, config))
    ELSE DistOk(compute_hamming_distance(s1.unicode, s2.unicode, config))

HammingSimilarityImpl(s1, s2, config) ==
  IF USLength(s1) # USLength(s2) THEN SimErr("InvalidInput")
  ELSE LET distance_result == HammingDistanceImpl(s1, s2, config)
       IN  IF ~distance_result.ok THEN SimErr(distance_result.code)
           ELSE SimOk(distance_to_similarity(distance_result.value, USLength(s1)))

(***************************************************************************)
(* Configurations.  AlgorithmConfig{} (core/types.hpp); the host's config  *)
(* object, every key optional; ExtractConfig (bindings/node_bindings.cpp). *)
(***************************************************************************)
AlgorithmConfig ==
  [algorithm |-> Levenshtein, preprocessing |-> PreCharacter,
   normalization |-> NormSimilarity, case_sensitivity |-> Sensitive,
   ngram_size |-> 2, threshold |-> {}, alpha |-> {}, beta |-> {},
   prefix_weight |-> {}, prefix_length |-> {}, max_string_length |-> {}]

\* a host object with no key
EmptyObject ==
  [algorithm |-> {}, preprocessing |-> {}, caseSensitivity |-> {},
   ngramSize |-> {}, threshold |-> {}, alpha |-> {}, beta |-> {},
   prefixWeight |-> {}, prefixLength |-> {}, maxStringLength |-> {}]

The(s) == CHOOSE v \in s : TRUE

\* static_cast of an Int32 to the uint8 enum
ExtractAlgorithmType(v) == v % 256

ExtractConfig(obj) ==
  [AlgorithmConfig EXCEPT
     !.algorithm = IF obj.algorithm # {}
                     THEN ExtractAlgorithmType(The(obj.algorithm)) ELSE @,
     !.preprocessing = IF obj.preprocessing # {}
                         THEN The(obj.preprocessing) % 256 ELSE @,
     !.case_sensitivity = IF obj.caseSensitivity # {}
                            THEN The(obj.caseSensitivity) % 256 ELSE @,
     !.ngram_size = IF obj.ngramSize # {} THEN The(obj.ngramSize) ELSE @,
     !.threshold = obj.threshold,
     !.alpha = obj.alpha,
     !.beta = obj.beta,
     !.prefix_weight = obj.prefixWeight,
     !.prefix_length = obj.prefixLength,
     !.max_string_length = obj.maxStringLength]

\* the config a binding passes on: AlgorithmConfig{} unless an object is given
BindingConfig(arg) == IF arg = {} THEN AlgorithmConfig ELSE ExtractConfig(The(arg))

\* ConfigurationManager
get_default_config ==
  [AlgorithmConfig EXCEPT
     !.algorithm = Levenshtein, !.preprocessing = PreCharacter,
     !.normalization = NormSimilarity, !.case_sensitivity = Sensitive,
     !.ngram_size = 2]

\* algorithm_configs: a function from the types that were set to configs
get_algorithm_config(algorithm_configs, type) ==
  IF type \in DOMAIN algorithm_configs
    THEN algorithm_configs[type]
    ELSE get_default_config

merge_configs(global, local, algorithm) ==
  [global EXCEPT
     !.algorithm = IF local.algorithm # Levenshtein
                     THEN local.algorithm ELSE algorithm,
     !.preprocessing = IF local.preprocessing # PreNone
                         THEN local.preprocessing ELSE @,
     !.normalization = IF local.normalization # NormNone
                         THEN local.normalization ELSE @,
     !.case_sensitivity = IF local.case_sensitivity # Sensitive
                            THEN local.case_sensitivity ELSE @,
     !.ngram_size = IF local.ngram_size # 2 THEN local.ngram_size ELSE @,
     !.threshold = IF local.threshold # {} THEN local.threshold ELSE @,
     !.alpha = IF local.alpha # {} THEN local.alpha ELSE @,
     !.beta = IF local.beta # {} THEN local.beta ELSE @,
     !.prefix_weight = IF local.prefix_weight # {} THEN local.prefix_weight ELSE @,
     !.prefix_length = IF local.prefix_length # {} THEN local.prefix_length ELSE @]

\* the config a calculate_similarity / calculate_distance call computes under
FinalConfig(global, algorithm_configs, algorithm, config) ==
  LET algorithm_config == get_algorithm_config(algorithm_configs, algorithm)
      final_config == merge_configs(global, algorithm_config, algorithm)
  IN  IF config.algorithm # Levenshtein \/ config.preprocessing # PreNone
        THEN merge_configs(final_config, config, algorithm)
        ELSE final_config

(***************************************************************************)
(* BaseAlgorithm (algorithms/base_algorithm.cpp).  Optional parameters     *)
(* are whole numbers in the model, and a prefix_weight above 0.25 is one   *)
(* above 0.                                                                *)
(***************************************************************************)
validate_configuration(config) ==
  /\ config.ngram_size # 0
  /\ (config.algorithm = Tversky
        => /\ config.alpha # {} /\ config.beta # {}
           /\ ~(The(config.alpha) < 0 \/ The(config.beta) < 0))
  /\ (config.algorithm = JaroWinkler
        => /\ ~(config.prefix_weight # {}
                 /\ (The(config.prefix_weight) < 0 \/ The(config.prefix_weight) > 0))
           /\ ~(config.prefix_length # {} /\ The(config.prefix_length) > 4))
  /\ ~(config.threshold # {} /\ The(config.threshold) < 0)

preprocess_string(input, config) ==
  IF USEmpty(input) THEN input
  ELSE IF config.case_sensitivity = Insensitive THEN to_lower(input)
  ELSE input

get_quick_similarity_answer(s1, s2, config) ==
  IF USEmpty(s1) /\ USEmpty(s2) THEN {One}
  ELSE IF USEmpty(s1) \/ USEmpty(s2) THEN {Zero}
  ELSE IF USEqual(s1, s2) THEN {One}
  ELSE IF config.case_sensitivity = Insensitive
          /\ USEqual(to_lower(s1), to_lower(s2)) THEN {One}
  ELSE {}

get_quick_distance_answer(s1, s2, config) ==
  IF USEmpty(s1) /\ USEmpty(s2) THEN {0}
  ELSE IF USEmpty(s1) THEN {USLength(s2)}
  ELSE IF USEmpty(s2) THEN {USLength(s1)}
  ELSE IF USEqual(s1, s2) THEN {0}
  ELSE IF config.case_sensitivity = Insensitive
          /\ USEqual(to_lower(s1), to_lower(s2)) THEN {0}
  ELSE {}

(***************************************************************************)
(* Token and vector kernels (algorithms/token_based.cpp, token_based.hpp,  *)
(* vector_based.cpp) and BaseAlgorithm::tokenize_string.  A Counter or a   *)
(* FrequencyVector is a function from the items counted to their counts.   *)
(* A similarity that is a square root, sqrt(n / d), is <<n, d, 2>> unless  *)
(* it is a fraction.                                                       *)
(***************************************************************************)
\* \w of std::regex in the C locale
is_word_char(b) ==
  b \in 48..57 \/ b \in 65..90 \/ b = 95 \/ b \in 97..122

\* the matches of \b\w+\b from byte i on, `word` being the word characters
\* read since the last byte that is none
RECURSIVE WordTokens(_, _, _)
WordTokens(bytes, i, word) ==
  IF i > Len(bytes) THEN (IF word = <<>> THEN <<>> ELSE <<word>>)
  ELSE IF is_word_char(bytes[i])
    THEN WordTokens(bytes, i + 1, Append(word, bytes[i]))
  ELSE (IF word = <<>> THEN <<>> ELSE <<word>>) \o WordTokens(bytes, i + 1, <<>>)

generate_ngrams(input, n) ==
  LET unicode_str == input.unicode
      len == Len(unicode_str)
  IN  IF n = 0 \/ USEmpty(input) THEN <<>>
      ELSE IF len < n THEN <<unicode_str>>
      ELSE [i \in 1..(len - n + 1) |-> SubSeq(unicode_str, i, i + n - 1)]

\* BaseAlgorithm::tokenize_string: the tokens' code points, in order
tokenize_string(input, config) ==
  IF config.preprocessing = PreCharacter
    THEN [i \in 1..Len(input.unicode) |-> <<input.unicode[i]>>]
  ELSE IF config.preprocessing = PreWord
    THEN LET words == WordTokens(input.utf8, 1, <<>>)
         IN  [i \in 1..Len(words) |-> utf8_to_utf32(words[i])]
  ELSE IF config.preprocessing = PreNGram
    THEN generate_ngrams(input, config.ngram_size)
  ELSE <<input.unicode>>

\* Counter / FrequencyVector, after increment for each item of a sequence
Counter(items) ==
  [t \in {items[i] : i \in DOMAIN items} |->
     Cardinality({i \in DOMAIN items : items[i] = t})]

get_count(counter, item) ==
  IF item \in DOMAIN counter THEN counter[item] ELSE 0

RECURSIVE CountOver(_, _)
CountOver(counter, items) ==
  IF items = {} THEN 0
  ELSE LET item == CHOOSE t \in items : TRUE
       IN  counter[item] + CountOver(counter, items \ {item})

total_count(counter) == CountOver(counter, DOMAIN counter)

intersect(counter, other) ==
  [t \in {u \in DOMAIN counter : get_count(other, u) > 0} |->
     Min2(counter[t], get_count(other, t))]

union_with(counter, other) ==
  [t \in DOMAIN counter \cup DOMAIN other |->
     IF t \in DOMAIN other THEN Max2(get_count(counter, t), other[t])
     ELSE counter[t]]

\* the sum over the terms of both vectors of the products of their counts
dot_product(vector, other) ==
  total_count([t \in DOMAIN vector \cap DOMAIN other |-> vector[t] * other[t]])

\* the square of FrequencyVector::magnitude
SquaredMagnitude(vector) ==
  total_count([t \in DOMAIN vector |-> vector[t] * vector[t]])

IsSquare(n) == \E r \in 0..n : r * r = n
ISqrt(n) == CHOOSE r \in 0..n : r * r = n

\* sqrt(n / d), for d > 0
RootFrac(n, d) ==
  LET f == Frac(n, d)
  IN  IF IsSquare(f[1]) /\ IsSquare(f[2]) THEN <<ISqrt(f[1]), ISqrt(f[2])>>
      ELSE <<f[1], f[2], 2>>

\* whether (k / 2000)^2 < n / d, for k >= 0
BelowRoot(k, n, d) == k * k * d < 4000000 * n

\* static_cast<uint32_t>(std::round((1.0 - similarity) * 1000.0)), for a
\* similarity in [0, 1]: a fraction <<n, d>> or a root <<n, d, 2>>
RoundedComplement(similarity) ==
  IF Len(similarity) = 2
    THEN (2000 * (similarity[2] - similarity[1]) + similarity[2])
           \div (2 * similarity[2])
    ELSE CHOOSE k \in 0..1000 :
           /\ BelowRoot(2000 - (2 * k) - 1, similarity[1], similarity[2])
           /\ ~BelowRoot(2000 - (2 * k) + 1, similarity[1], similarity[2])

\* compute_distance_impl of the Jaccard, Sorensen-Dice and Cosine kernels
DistanceFromSimilarity(similarity_result) ==
  IF ~similarity_result.ok THEN DistErr(similarity_result.code)
  ELSE DistOk(RoundedComplement(similarity_result.value))

compute_jaccard_set(set1, set2) ==
  IF set1 = {} /\ set2 = {} THEN One
  ELSE IF set1 = {} \/ set2 = {} THEN Zero
  ELSE LET intersection_size == Cardinality(set1 \cap set2)
           union_size == Cardinality(set1) + Cardinality(set2) - intersection_size
       IN  IF union_size = 0 THEN Zero ELSE Frac(intersection_size, union_size)

compute_jaccard_multiset(counter1, counter2) ==
  IF DOMAIN counter1 = {} /\ DOMAIN counter2 = {} THEN One
  ELSE IF DOMAIN counter1 = {} \/ DOMAIN counter2 = {} THEN Zero
  ELSE LET intersection_size == total_count(intersect(counter1, counter2))
           union_size == total_count(union_with(counter1, counter2))
       IN  IF union_size = 0 THEN Zero ELSE Frac(intersection_size, union_size)

JaccardSimilarityImpl(s1, s2, config) ==
  IF config.preprocessing = PreWord
    THEN SimOk(compute_jaccard_set(DOMAIN Counter(tokenize_string(s1, config)),
                                   DOMAIN Counter(tokenize_string(s2, config))))
    ELSE SimOk(compute_jaccard_multiset(Counter(tokenize_string(s1, config)),
                                        Counter(tokenize_string(s2, config))))

compute_dice_similarity(counter1, counter2) ==
  IF DOMAIN counter1 = {} /\ DOMAIN counter2 = {} THEN One
  ELSE IF DOMAIN counter1 = {} \/ DOMAIN counter2 = {} THEN Zero
  ELSE LET intersection_size == total_count(intersect(counter1, counter2))
           total_size == total_count(counter1) + total_count(counter2)
       IN  IF total_size = 0 THEN Zero ELSE Frac(2 * intersection_size, total_size)

SorensenDiceSimilarityImpl(s1, s2, config) ==
  SimOk(compute_dice_similarity(Counter(tokenize_string(s1, config)),
                                Counter(tokenize_string(s2, config))))

\* dot / sqrt(squares), clamped to [0, 1]: the dot product of two vectors
\* is at most the product of their magnitudes
CosineOf(dot, squares) ==
  IF squares = 0 THEN Zero ELSE RootFrac(dot * dot, squares)

compute_cosine_similarity(vector1, vector2) ==
  IF DOMAIN vector1 = {} /\ DOMAIN vector2 = {} THEN One
  ELSE IF DOMAIN vector1 = {} \/ DOMAIN vector2 = {} THEN Zero
  ELSE IF vector1 = vector2 THEN One
  ELSE CosineOf(dot_product(vector1, vector2),
                SquaredMagnitude(vector1) * SquaredMagnitude(vector2))

compute_cosine_character_vectorization(s1, s2) ==
  LET chars1 == {s1[i] : i \in DOMAIN s1}
      chars2 == {s2[i] : i \in DOMAIN s2}
  IN  IF s1 = <<>> /\ s2 = <<>> THEN One
      ELSE IF s1 = <<>> \/ s2 = <<>> THEN Zero
      ELSE CosineOf(Cardinality(chars1 \cap chars2),
                    Cardinality(chars1) * Cardinality(chars2))

\* the frequencies of the bytes, upper case added to lower case under
\* case-insensitive comparison
count_ascii_frequencies(str, config) ==
  Counter([i \in DOMAIN str |->
             IF config.case_sensitivity = Insensitive /\ str[i] \in 65..90
               THEN str[i] + 32 ELSE str[i]])

compute_cosine_simd(s1, s2, config) ==
  IF s1 = <<>> /\ s2 = <<>> THEN One
  ELSE IF s1 = <<>> \/ s2 = <<>> THEN Zero
  ELSE CosineOf(dot_product(count_ascii_frequencies(s1, config),
                            count_ascii_frequencies(s2, config)),
                SquaredMagnitude(count_ascii_frequencies(s1, config))
                  * SquaredMagnitude(count_ascii_frequencies(s2, config)))

CosineSimilarityImpl(s1, s2, config) ==
  IF config.preprocessing = PreCharacter
    THEN IF is_ascii_string(s1.utf8) /\ is_ascii_string(s2.utf8)
           THEN SimOk(compute_cosine_simd(s1.utf8, s2.utf8, config))
           ELSE SimOk(compute_cosine_character_vectorization(s1.unicode, s2.unicode))
    ELSE SimOk(compute_cosine_similarity(Counter(tokenize_string(s1, config)),
                                         Counter(tokenize_string(s2, config))))

\* the kernels of the token specification
TokenAlgorithms == {Jaccard, SorensenDice, Cosine}

\* the algorithms the engine specifications create
SupportedAlgorithms == {Levenshtein, Hamming}

compute_similarity_impl(type, s1, s2, config, x86) ==
  IF type = Levenshtein
    THEN LevenshteinSimilarityImpl(s1, s2, config, x86)
  ELSE IF type = Jaccard THEN JaccardSimilarityImpl(s1, s2, config)
  ELSE IF type = SorensenDice THEN SorensenDiceSimilarityImpl(s1, s2, config)
  ELSE IF type = Cosine THEN CosineSimilarityImpl(s1, s2, config)
  ELSE HammingSimilarityImpl(s1, s2, config)

compute_distance_impl(type, s1, s2, config, x86) ==
  IF type = Levenshtein
    THEN LevenshteinDistanceImpl(s1, s2, config, x86)
  ELSE IF type = Jaccard
    THEN DistanceFromSimilarity(JaccardSimilarityImpl(s1, s2, config))
  ELSE IF type = SorensenDice
    THEN DistanceFromSimilarity(SorensenDiceSimilarityImpl(s1, s2, config))
  ELSE IF type = Cosine
    THEN DistanceFromSimilarity(CosineSimilarityImpl(s1, s2, config))
  ELSE HammingDistanceImpl(s1, s2, config)

\* BaseAlgorithm::calculate_similarity of an algorithm created for `type`
\* with `config`
calculate_similarity(type, config, s1, s2, x86) ==
  LET quick_result == get_quick_similarity_answer(s1, s2, config)
  IN  IF quick_result # {} THEN SimOk(The(quick_result))
      ELSE compute_similarity_impl(type, preprocess_string(s1, config),
                                   preprocess_string(s2, config), config, x86)

calculate_distance(type, config, s1, s2, x86) ==
  LET quick_result == get_quick_distance_answer(s1, s2, config)
  IN  IF quick_result # {} THEN DistOk(The(quick_result))
      ELSE compute_distance_impl(type, preprocess_string(s1, config),
                                 preprocess_string(s2, config), config, x86)

(***************************************************************************)
(* State.                                                                  *)
(***************************************************************************)
VARIABLES
  x86,      \* the build targets x86 (the #if branches of levenshtein.cpp)
  k_type,   \* kernel specifications: the algorithm created by the factory
  k_config, \* its config_
  k_s1,     \* the first argument, a UnicodeString
  k_s2,     \* the second argument
  k_pc,     \* "ready", then "similarity" or "distance" once computed
  k_sim,    \* the SimilarityResult returned
  k_dist,   \* the DistanceResult returned
  c_req,    \* cache-key specification: two requests (s1, s2, algorithm, config)
  c_key,    \* their cache keys, once created
  global_config_,     \* ConfigurationManager::global_config_
  algorithm_configs_, \* ConfigurationManager::algorithm_configs_
  result_cache_,      \* SimilarityEngine::result_cache_
  now,                \* std::chrono::steady_clock, in minutes
  e_calls,  \* engine specification: the number of calls made so far
  e_last,   \* the last call: its arguments and what it returned
  shutdown_,    \* AsyncExecutor::shutdown_
  task_queue_,  \* AsyncExecutor::task_queue_, the queued tasks' ids
  x_workers,    \* each worker thread's position in worker_loop and its task
  x_tasks,      \* the submissions made, in order; a task's id is its index;
                \* `given` is the per-call config of the engine call behind it
  x_futures,    \* each submission's shared state: how often set, and to what
  x_shutdown,   \* the thread in shutdown(): "idle", "notify", "joining",
                \* "returned"
  t_calls,  \* cache specification: each thread's calculate_similarity call
  t_config  \* the thread in set_global_configuration: "idle", "clear" (the
            \* config is set, the cache not yet cleared), "returned"

kvars == <<k_type, k_config, k_s1, k_s2, k_pc, k_sim, k_dist>>
cvars == <<c_req, c_key>>
evars == <<global_config_, algorithm_configs_, result_cache_, now, e_calls, e_last>>
xvars == <<shutdown_, task_queue_, x_workers, x_tasks, x_futures, x_shutdown>>
tvars == <<t_calls, t_config>>
vars == <<x86, kvars, cvars, evars, xvars, tvars>>

\* all strings of at most n code points over an alphabet
StringsUpTo(alphabet, n) == UNION {[1..k -> alphabet] : k \in 0..n}

NoSimilarity == SimErr("NotComputed")
NoDistance == DistErr("NotComputed")

\* the parts of the state a specification does not use stay as they are here
KernelIdle ==
  /\ k_type = Levenshtein
  /\ k_config = AlgorithmConfig
  /\ k_s1 = UnicodeStringFromUtf8(<<>>)
  /\ k_s2 = UnicodeStringFromUtf8(<<>>)
  /\ k_pc = "idle"
  /\ k_sim = NoSimilarity
  /\ k_dist = NoDistance

CacheKeyIdle ==
  /\ c_req = <<>>
  /\ c_key = <<>>

NoCall ==
  [op |-> "none", s1 |-> <<>>, s2 |-> <<>>, pairs |-> <<>>, tag |-> Levenshtein,
   algorithm |-> Levenshtein, arg |-> {}, final_config |-> AlgorithmConfig, sim |-> NoSimilarity,
   dist |-> NoDistance, results |-> <<>>, cache_before |-> {}, hit |-> FALSE]

\* the engine as constructed
EngineIdle ==
  /\ global_config_ = AlgorithmConfig
  /\ algorithm_configs_ = <<>>
  /\ result_cache_ = {}
  /\ now = 0
  /\ e_calls = 0
  /\ e_last = NoCall

\* no executor
ExecutorIdle ==
  /\ shutdown_ = FALSE
  /\ task_queue_ = <<>>
  /\ x_workers = <<>>
  /\ x_tasks = <<>>
  /\ x_futures = <<>>
  /\ x_shutdown = "idle"

\* the threads that call the engine: the host's thread and a worker
Threads == {"main", "worker"}

\* a thread outside calculate_similarity
NoThreadCall ==
  [pc |-> "idle", key |-> <<>>, result |-> NoSimilarity, hit |-> FALSE,
   size_before |-> 0, global |-> AlgorithmConfig]

ThreadsIdle ==
  /\ t_calls = [t \in Threads |-> NoThreadCall]
  /\ t_config = "idle"

(***************************************************************************)
(* Kernel specifications: an algorithm object is created for a type and a  *)
(* valid config, and calculate_similarity or calculate_distance is called  *)
(* on two strings.                                                         *)
(***************************************************************************)
\* 'A', 'a', e-acute: two ASCII letters that differ in case, one non-ASCII
KernelAlphabet == {65, 97, 233}

KernelThresholds == {{}} \cup {{t} : t \in 0..MaxThreshold}

InitKernel ==
  /\ x86 \in BOOLEAN
  /\ k_type \in SupportedAlgorithms
  /\ \E t \in KernelThresholds, cs \in {Sensitive, Insensitive} :
       k_config = [AlgorithmConfig EXCEPT !.algorithm = k_type, !.threshold = t,
                                          !.case_sensitivity = cs]
  /\ \E a, b \in StringsUpTo(KernelAlphabet, MaxKernelLen) :
       /\ k_s1 = UnicodeStringFromUtf8(utf32_to_utf8(a))
       /\ k_s2 = UnicodeStringFromUtf8(utf32_to_utf8(b))
  /\ k_pc = "ready"
  /\ k_sim = NoSimilarity
  /\ k_dist = NoDistance
  /\ CacheKeyIdle
  /\ EngineIdle
  /\ ExecutorIdle
  /\ ThreadsIdle

\* Levenshtein under the default config: no threshold, case-sensitive
InitLevenshtein ==
  /\ x86 \in BOOLEAN
  /\ k_type = Levenshtein
  /\ k_config = AlgorithmConfig
  /\ \E a, b \in StringsUpTo(KernelAlphabet, MaxLen) :
       /\ k_s1 = UnicodeStringFromUtf8(utf32_to_utf8(a))
       /\ k_s2 = UnicodeStringFromUtf8(utf32_to_utf8(b))
  /\ k_pc = "ready"
  /\ k_sim = NoSimilarity
  /\ k_dist = NoDistance
  /\ CacheKeyIdle
  /\ EngineIdle
  /\ ExecutorIdle
  /\ ThreadsIdle

KernelSimilarity ==
  /\ k_pc = "ready"
  /\ validate_configuration(k_config)
  /\ k_sim' = calculate_similarity(k_type, k_config, k_s1, k_s2, x86)
  /\ k_pc' = "similarity"
  /\ UNCHANGED <<x86, tvars, k_type, k_config, k_s1, k_s2, k_dist, cvars, evars, xvars>>

KernelDistance ==
  /\ k_pc = "ready"
  /\ validate_configuration(k_config)
  /\ k_dist' = calculate_distance(k_type, k_config, k_s1, k_s2, x86)
  /\ k_pc' = "distance"
  /\ UNCHANGED <<x86, tvars, k_type, k_config, k_s1, k_s2, k_sim, cvars, evars, xvars>>

NextKernel == KernelSimilarity \/ KernelDistance

SpecKernel == InitKernel /\ [][NextKernel]_vars
SpecLevenshtein == InitLevenshtein /\ [][NextKernel]_vars

\* capital and small omega, capital and small alpha with tonos: two pairs
\* of the folding table, of its Greek and its accented Greek rows
FoldingAlphabet == {937, 969, 902, 940}

\* either algorithm under case-insensitive comparison
InitFolding ==
  /\ x86 \in BOOLEAN
  /\ k_type \in SupportedAlgorithms
  /\ k_config = [AlgorithmConfig EXCEPT !.algorithm = k_type,
                                        !.case_sensitivity = Insensitive]
  /\ \E a, b \in StringsUpTo(FoldingAlphabet, MaxKernelLen) :
       /\ k_s1 = UnicodeStringFromUtf8(utf32_to_utf8(a))
       /\ k_s2 = UnicodeStringFromUtf8(utf32_to_utf8(b))
  /\ k_pc = "ready"
  /\ k_sim = NoSimilarity
  /\ k_dist = NoDistance
  /\ CacheKeyIdle
  /\ EngineIdle
  /\ ExecutorIdle
  /\ ThreadsIdle

SpecFolding == InitFolding /\ [][NextKernel]_vars

(***************************************************************************)
(* The edit distance, by its defining recurrence on prefixes: the least    *)
(* number of single code-point insertions, deletions and substitutions.    *)
(***************************************************************************)
RECURSIVE EditDistance(_, _)
EditDistance(a, b) ==
  IF a = <<>> THEN Len(b)
  ELSE IF b = <<>> THEN Len(a)
  ELSE Min3(EditDistance(Tail(a), b) + 1,
            EditDistance(a, Tail(b)) + 1,
            EditDistance(Tail(a), Tail(b)) + (IF Head(a) = Head(b) THEN 0 ELSE 1))

\* p <= q for fractions with positive denominators
FracLeq(p, q) == p[1] * q[2] <= q[1] * p[2]

\* C1: every successful similarity result lies in [0, 1] and every
\* successful distance result is non-negative, for every algorithm and
\* config, the Levenshtein threshold included.
C1_ResultsInRange ==
  /\ (k_pc = "similarity" /\ k_sim.ok)
       => (FracLeq(Zero, k_sim.value) /\ FracLeq(k_sim.value, One))
  /\ (k_pc = "distance" /\ k_dist.ok) => k_dist.value >= 0

\* C10: with no threshold and case-sensitive comparison, the Levenshtein
\* distance is the edit distance of the two code-point sequences, on the
\* code-point path and on the ASCII byte path alike.
C10_LevenshteinIsEditDistance ==
  k_pc = "distance"
    => (k_dist.ok /\ k_dist.value = EditDistance(k_s1.unicode, k_s2.unicode))

\* C10 happens: the byte path computed the distance 2 of "AaA" and "aa"
C10_Witness ==
  /\ k_pc = "distance"
  /\ x86
  /\ k_s1.utf8 = <<65, 97, 65>> /\ k_s2.utf8 = <<97, 97>>
  /\ k_config.threshold = {} /\ k_config.case_sensitivity = Sensitive
  /\ k_dist = DistOk(2)

\* C11: with a threshold k and case-sensitive comparison, the Levenshtein
\* distance is min(d, k + 1), d being the edit distance of the two
\* code-point sequences: d itself when d <= k, k + 1 otherwise, for ASCII
\* and non-ASCII strings alike.
C11_ThresholdSaturates ==
  (/\ k_pc = "distance"
   /\ k_type = Levenshtein
   /\ k_config.threshold # {}
   /\ k_config.case_sensitivity = Sensitive)
    => /\ k_dist.ok
       /\ k_dist.value = Min2(EditDistance(k_s1.unicode, k_s2.unicode),
                              The(k_config.threshold) + 1)

\* C13: Hamming similarity and Hamming distance fail with InvalidInput
\* whenever the two strings differ in their number of code points, also
\* when exactly one of them is empty.
C13_HammingNeedsEqualLengths ==
  (/\ k_type = Hamming
   /\ USLength(k_s1) # USLength(k_s2))
    => /\ k_pc = "similarity"
          => ~k_sim.ok /\ k_sim.code = "InvalidInput"
       /\ k_pc = "distance"
          => ~k_dist.ok /\ k_dist.code = "InvalidInput"

\* C16: similarity and distance are symmetric: under every valid config,
\* a Levenshtein threshold included, the result for (s1, s2) is the result
\* for (s2, s1).
C16_Symmetric ==
  /\ k_pc = "similarity"
       => k_sim = calculate_similarity(k_type, k_config, k_s2, k_s1, x86)
  /\ k_pc = "distance"
       => k_dist = calculate_distance(k_type, k_config, k_s2, k_s1, x86)

\* the lower-case partner the folding table lists for a code point, the
\* code point itself when the table has no row for it
TableFold(c) ==
  LET rows == {i \in 1..Len(uppercase_to_lowercase_basic) :
                 uppercase_to_lowercase_basic[i][1] = c}
  IN  IF rows = {} THEN c
      ELSE uppercase_to_lowercase_basic[CHOOSE i \in rows : TRUE][2]

FoldedByTable(cps) == [i \in 1..Len(cps) |-> TableFold(cps[i])]

\* C19: under case_sensitivity = Insensitive, two strings that are equal
\* after case folding by the folding table get similarity 1 and distance 0.
C19_FoldedEqualIsIdentical ==
  (/\ k_config.case_sensitivity = Insensitive
   /\ FoldedByTable(k_s1.unicode) = FoldedByTable(k_s2.unicode))
    => /\ k_pc = "similarity" => k_sim = SimOk(One)
       /\ k_pc = "distance" => k_dist = DistOk(0)

\* '@' and '`', '0' and DLE: two pairs of ASCII characters that are no
\* letters and differ in bit 0x20 alone
AsciiFoldingAlphabet == {64, 96, 48, 16}

\* either algorithm under case-insensitive comparison, on ASCII strings
\* without a letter
InitAsciiFolding ==
  /\ x86 \in BOOLEAN
  /\ k_type \in SupportedAlgorithms
  /\ k_config = [AlgorithmConfig EXCEPT !.algorithm = k_type,
                                        !.case_sensitivity = Insensitive]
  /\ \E a, b \in StringsUpTo(AsciiFoldingAlphabet, MaxKernelLen) :
       /\ k_s1 = UnicodeStringFromUtf8(utf32_to_utf8(a))
       /\ k_s2 = UnicodeStringFromUtf8(utf32_to_utf8(b))
  /\ k_pc = "ready"
  /\ k_sim = NoSimilarity
  /\ k_dist = NoDistance
  /\ CacheKeyIdle
  /\ EngineIdle
  /\ ExecutorIdle
  /\ ThreadsIdle

SpecAsciiFolding == InitAsciiFolding /\ [][NextKernel]_vars

\* C30: under case_sensitivity = Insensitive, two different strings of
\* ASCII characters none of which is a letter (no row of the folding table
\* applies to them) get neither similarity 1 nor distance 0.
C30_OnlyLettersFold ==
  (/\ k_config.case_sensitivity = Insensitive
   /\ k_s1.unicode # k_s2.unicode
   /\ \A i \in DOMAIN k_s1.unicode : TableFold(k_s1.unicode[i]) = k_s1.unicode[i]
   /\ \A i \in DOMAIN k_s2.unicode : TableFold(k_s2.unicode[i]) = k_s2.unicode[i])
    => /\ k_pc = "similarity" => k_sim # SimOk(One)
       /\ k_pc = "distance" => k_dist # DistOk(0)

(***************************************************************************)
(* The token specification: a Jaccard, Sorensen-Dice or Cosine object is   *)
(* created for Character or Word preprocessing, and calculate_similarity   *)
(* or calculate_distance is called on two strings.                         *)
(***************************************************************************)
\* 'a', the space, e-acute: a word character, a separator, one non-ASCII
TokenAlphabet == {97, 32, 233}

InitToken ==
  /\ x86 \in BOOLEAN
  /\ k_type \in TokenAlgorithms
  /\ \E mode \in {PreCharacter, PreWord} :
       k_config = [AlgorithmConfig EXCEPT !.algorithm = k_type,
                                          !.preprocessing = mode]
  /\ \E a, b \in StringsUpTo(TokenAlphabet, MaxLen) :
       /\ k_s1 = UnicodeStringFromUtf8(utf32_to_utf8(a))
       /\ k_s2 = UnicodeStringFromUtf8(utf32_to_utf8(b))
  /\ k_pc = "ready"
  /\ k_sim = NoSimilarity
  /\ k_dist = NoDistance
  /\ CacheKeyIdle
  /\ EngineIdle
  /\ ExecutorIdle
  /\ ThreadsIdle

SpecToken == InitToken /\ [][NextKernel]_vars

\* C22: for Cosine, Jaccard and Sorensen-Dice, the distance of a pair is
\* round(1000 * (1 - similarity)) of the similarity of the same pair under
\* the same config, also when exactly one of the strings is empty.
C22_DistanceIsComplement ==
  (k_pc = "distance" /\ k_type \in TokenAlgorithms)
    => k_dist =
         DistanceFromSimilarity(
           calculate_similarity(k_type, k_config, k_s1, k_s2, x86))

\* C23: under Word preprocessing, the Sorensen-Dice similarity of two
\* strings is at least their Jaccard similarity.
C23_DiceAtLeastJaccard ==
  (/\ k_pc = "similarity"
   /\ k_type = SorensenDice
   /\ k_config.preprocessing = PreWord)
    => /\ k_sim.ok
       /\ FracLeq(calculate_similarity(
                    Jaccard, [k_config EXCEPT !.algorithm = Jaccard], k_s1,
                    k_s2, x86).value,
                  k_sim.value)

(***************************************************************************)
(* The cache key (engine/similarity_engine.cpp): the decimal renderings    *)
(* of four numbers and the two strings' bytes, joined by '|' (124).        *)
(***************************************************************************)
RECURSIVE Decimal(_)
Decimal(n) ==
  IF n < 10 THEN <<48 + n>> ELSE Decimal(n \div 10) \o <<48 + (n % 10)>>

create_cache_key(s1, s2, algorithm, config) ==
  Decimal(algorithm) \o <<124>> \o Decimal(config.preprocessing) \o <<124>>
  \o Decimal(config.case_sensitivity) \o <<124>> \o Decimal(config.ngram_size)
  \o <<124>> \o s1 \o <<124>> \o s2

\* what the key is a fingerprint of
Fingerprinted(r) ==
  <<r.algorithm, r.config.preprocessing, r.config.case_sensitivity,
    r.config.ngram_size, r.s1, r.s2>>

\* 'a' and '|'
CacheKeyAlphabet == {97, 124}

CacheKeyRequests ==
  [s1 : {utf32_to_utf8(s) : s \in StringsUpTo(CacheKeyAlphabet, MaxKeyLen)},
   s2 : {utf32_to_utf8(s) : s \in StringsUpTo(CacheKeyAlphabet, MaxKeyLen)},
   algorithm : SupportedAlgorithms,
   config : {[AlgorithmConfig EXCEPT !.case_sensitivity = cs] :
               cs \in {Sensitive, Insensitive}}]

InitCacheKey ==
  /\ x86 = FALSE
  /\ KernelIdle
  /\ c_req \in CacheKeyRequests \X CacheKeyRequests
  /\ c_key = <<>>
  /\ EngineIdle
  /\ ExecutorIdle
  /\ ThreadsIdle

CreateCacheKeys ==
  /\ c_req # <<>>
  /\ c_key = <<>>
  /\ c_key' = <<create_cache_key(c_req[1].s1, c_req[1].s2, c_req[1].algorithm,
                                 c_req[1].config),
                create_cache_key(c_req[2].s1, c_req[2].s2, c_req[2].algorithm,
                                 c_req[2].config)>>
  /\ UNCHANGED <<x86, tvars, kvars, c_req, evars, xvars>>

NextCacheKey == CreateCacheKeys

SpecCacheKey == InitCacheKey /\ [][NextCacheKey]_vars

\* C5: the cache fingerprint is injective: two requests that differ in the
\* algorithm, the preprocessing, the case sensitivity, the n-gram size or
\* either string never get the same key, strings with '|' included.
C5_CacheKeyInjective ==
  (c_key # <<>> /\ c_key[1] = c_key[2])
    => Fingerprinted(c_req[1]) = Fingerprinted(c_req[2])

(***************************************************************************)
(* The result cache (engine/similarity_engine.cpp): the CacheEntry values  *)
(* [key, result, timestamp] of an unordered_map, at most one to a key; the *)
(* clock counts minutes.                                                   *)
(***************************************************************************)
EmptyCache == {}

\* a probe that takes no account of an entry's age
get_cached_result_of_any_age(cache, key, clock) ==
  LET it == {entry \in cache : entry.key = key}
  IN  IF it # {}
        THEN [value |-> {The(it).result}, cache |-> cache]
        ELSE [value |-> {}, cache |-> cache]

\* the optional result, and the cache after the probe (an expired entry is
\* erased)
get_cached_result(cache, key, clock) ==
  LET it == {entry \in cache : entry.key = key}
  IN  IF it # {}
        THEN IF clock - The(it).timestamp < CACHE_TTL
               THEN [value |-> {The(it).result}, cache |-> cache]
               ELSE [value |-> {}, cache |-> cache \ it]
        ELSE [value |-> {}, cache |-> cache]

\* std::string operator<
RECURSIVE StringLess(_, _)
StringLess(a, b) ==
  IF b = <<>> THEN FALSE
  ELSE IF a = <<>> THEN TRUE
  ELSE IF Head(a) # Head(b) THEN Head(a) < Head(b)
  ELSE StringLess(Tail(a), Tail(b))

RECURSIVE SumOver(_, _)
SumOver(f, S) ==
  IF S = {} THEN 0
  ELSE LET x == CHOOSE y \in S : TRUE IN f[x] + SumOver(f, S \ {x})

cleanup_cache(cache, clock) ==
  LET fresh == {entry \in cache : ~(clock - entry.timestamp >= CACHE_TTL)}
      to_remove == Cardinality(fresh) - (MAX_CACHE_SIZE \div 2)
      \* the sorted (timestamp, key) pairs, timestamp by timestamp: the
      \* entries of each timestamp, how many pairs there are up to it, and
      \* the timestamp of the first pair that is not erased
      stamps == {entry.timestamp : entry \in fresh}
      entries_of == [t \in stamps |-> {entry \in fresh : entry.timestamp = t}]
      count_of == [t \in stamps |-> Cardinality(entries_of[t])]
      up_to == [t \in stamps |-> SumOver(count_of, {u \in stamps : u <= t})]
      edge == CHOOSE t \in stamps :
                /\ up_to[t] > to_remove
                /\ \A u \in stamps : u < t => up_to[u] <= to_remove
      \* within one timestamp the pairs are sorted by key
      rest == to_remove - (up_to[edge] - count_of[edge])
      kept_of_edge ==
        IF rest = 0 THEN entries_of[edge]
        ELSE {entry \in entries_of[edge] :
                Cardinality({other \in entries_of[edge] :
                               StringLess(other.key, entry.key)}) >= rest}
  IN  IF Cardinality(fresh) >= MAX_CACHE_SIZE
        THEN kept_of_edge
             \cup UNION {entries_of[t] : t \in {u \in stamps : u > edge}}
        ELSE fresh

\* a cache_result that never makes room
cache_result_without_cleanup(cache, key, result, clock) ==
  {entry \in cache : entry.key # key}
  \cup {[key |-> key, result |-> result, timestamp |-> clock]}

cache_result(cache, key, result, clock) ==
  LET room == IF Cardinality(cache) >= MAX_CACHE_SIZE
                THEN cleanup_cache(cache, clock)
                ELSE cache
  IN  {entry \in room : entry.key # key}
      \cup {[key |-> key, result |-> result, timestamp |-> clock]}

\* a clear_caches that clears nothing
clear_caches_keeping(cache) == cache

clear_caches(cache) == EmptyCache

(***************************************************************************)
(* SimilarityEngine (engine/similarity_engine.cpp).                        *)
(***************************************************************************)
validate_input(s1, s2) ==
  Len(s1) <= MAX_STRING_LENGTH /\ Len(s2) <= MAX_STRING_LENGTH

\* AlgorithmFactory::create_algorithm succeeds: a creator is registered for
\* the type and the constructor accepts the config
create_algorithm_succeeds(type, config) ==
  type \in SupportedAlgorithms /\ validate_configuration(config)

\* where a calculate_similarity call stands before cache_result: whether
\* it has returned by then, whether from the cache, its result, the cache
\* as the probe left it, the key and the merged config
CallOutcome(returned, hit, result, cache, cache_key, final_config) ==
  [returned |-> returned, hit |-> hit, result |-> result, cache |-> cache,
   cache_key |-> cache_key, final_config |-> final_config]

\* a call that stores whatever the algorithm returned
ComputedOutcomeAlwaysStored(result, cache, cache_key, final_config) ==
  CallOutcome(FALSE, FALSE, result, cache, cache_key, final_config)

\* the algorithm has run: the call returns now unless the result is a
\* success, which it stores first
ComputedOutcome(result, cache, cache_key, final_config) ==
  CallOutcome(~result.ok, FALSE, result, cache, cache_key, final_config)

\* SimilarityEngine::calculate_similarity up to its last statement before
\* cache_result: it has returned by then on invalid input, a cache hit, an
\* exception or an unsuccessful result
calculate_similarity_until_store(cache, global, algorithm_configs, clock, s1, s2, algorithm, config, isx86) ==
  LET final_config == FinalConfig(global, algorithm_configs, algorithm, config)
      cache_key == create_cache_key(s1, s2, algorithm, final_config)
      cached == get_cached_result(cache, cache_key, clock)
  IN  IF ~validate_input(s1, s2)
        THEN CallOutcome(TRUE, FALSE, SimErr("InvalidInput"), cache, cache_key,
                         final_config)
      ELSE IF cached.value # {}
        THEN CallOutcome(TRUE, TRUE, SimOk(The(cached.value)), cached.cache,
                         cache_key, final_config)
      ELSE IF ~create_algorithm_succeeds(algorithm, final_config)
        THEN CallOutcome(TRUE, FALSE, SimErr("Unknown"), cached.cache,
                         cache_key, final_config)
      ELSE ComputedOutcome(
             calculate_similarity(algorithm, final_config,
                                  UnicodeStringFromUtf8(s1),
                                  UnicodeStringFromUtf8(s2), isx86),
             cached.cache, cache_key, final_config)

\* the end of SimilarityEngine::calculate_similarity: cache_result, if the
\* call has not returned, and the return
calculate_similarity_store(call, clock) ==
  [result |-> call.result,
   cache |-> IF call.returned THEN call.cache
             ELSE cache_result(call.cache, call.cache_key, call.result.value,
                               clock),
   final_config |-> call.final_config,
   hit |-> call.hit]

\* SimilarityEngine::calculate_similarity: the result, the cache it leaves,
\* the merged config it computed under and whether the cache answered
SimilarityEngine_calculate_similarity(cache, global, algorithm_configs, clock, s1, s2, algorithm, config, isx86) ==
  calculate_similarity_store(
    calculate_similarity_until_store(cache, global, algorithm_configs, clock,
                                     s1, s2, algorithm, config, isx86),
    clock)

\* SimilarityEngine::calculate_distance: no cache
SimilarityEngine_calculate_distance(global, algorithm_configs, s1, s2, algorithm, config, isx86) ==
  LET final_config == FinalConfig(global, algorithm_configs, algorithm, config)
      us1 == UnicodeStringFromUtf8(s1)
      us2 == UnicodeStringFromUtf8(s2)
  IN  IF ~validate_input(s1, s2)
        THEN [result |-> DistErr("InvalidInput"), final_config |-> final_config]
      ELSE IF ~create_algorithm_succeeds(algorithm, final_config)
        THEN [result |-> DistErr("Unknown"), final_config |-> final_config]
      ELSE [result |-> calculate_distance(algorithm, final_config, us1, us2, isx86),
            final_config |-> final_config]

\* a batch loop that gives up at the first failing pair
RECURSIVE BatchLoopStoppingAtError(_, _, _, _, _, _, _, _, _, _)
BatchLoopStoppingAtError(results, cache, i, pairs, global, algorithm_configs, clock, algorithm, config, isx86) ==
  IF i > Len(pairs) THEN [results |-> results, cache |-> cache]
  ELSE LET r == SimilarityEngine_calculate_similarity(
                  cache, global, algorithm_configs, clock,
                  pairs[i][1], pairs[i][2], algorithm, config, isx86)
       IN  IF ~r.result.ok
             THEN [results |-> Append(results, r.result), cache |-> r.cache]
             ELSE BatchLoopStoppingAtError(
                    Append(results, r.result), r.cache, i + 1, pairs, global,
                    algorithm_configs, clock, algorithm, config, isx86)

\* SimilarityEngine::calculate_similarity_batch: the loop from pair i on,
\* pushing each result onto `results`
RECURSIVE BatchLoop(_, _, _, _, _, _, _, _, _, _)
BatchLoop(results, cache, i, pairs, global, algorithm_configs, clock, algorithm, config, isx86) ==
  IF i > Len(pairs) THEN [results |-> results, cache |-> cache]
  ELSE LET r == SimilarityEngine_calculate_similarity(
                  cache, global, algorithm_configs, clock,
                  pairs[i][1], pairs[i][2], algorithm, config, isx86)
       IN  BatchLoop(Append(results, r.result), r.cache, i + 1, pairs, global,
                     algorithm_configs, clock, algorithm, config, isx86)

calculate_similarity_batch(cache, global, algorithm_configs, clock, pairs, algorithm, config, isx86) ==
  BatchLoop(<<>>, cache, 1, pairs, global, algorithm_configs, clock,
            algorithm, config, isx86)

(***************************************************************************)
(* The engine specification: a host makes up to MaxCalls calls through     *)
(* the bindings (bindings/node_bindings.cpp), one at a time.               *)
(***************************************************************************)
\* ("e-acute", "u-umlaut e-acute") and ("A", "a"), as UTF-8
EnginePairs ==
  {<<utf32_to_utf8(<<233>>), utf32_to_utf8(<<252, 233>>)>>,
   <<utf32_to_utf8(<<65>>), utf32_to_utf8(<<97>>)>>}

\* the per-call config argument: absent, or one of three objects
CallArgs ==
  {{},
   {[EmptyObject EXCEPT !.threshold = {2}]},
   {[EmptyObject EXCEPT !.caseSensitivity = {Sensitive}]},
   {[EmptyObject EXCEPT !.preprocessing = {PreNone}, !.ngramSize = {2}]}}

GlobalObjects ==
  {[EmptyObject EXCEPT !.caseSensitivity = {Insensitive}],
   [EmptyObject EXCEPT !.preprocessing = {PreWord}, !.ngramSize = {3}]}

BatchPairs == UNION {[1..n -> EnginePairs] : n \in 0..MaxBatch}

InitEngine ==
  /\ x86 \in BOOLEAN
  /\ KernelIdle
  /\ CacheKeyIdle
  /\ EngineIdle
  /\ ExecutorIdle
  /\ ThreadsIdle

\* TextSimilarityAddon::CalculateSimilarity on arguments of the given sets
CalculateSimilarityOn(string_pairs, tags, args) ==
  /\ e_calls < MaxCalls
  /\ \E p \in string_pairs, tag \in tags, arg \in args :
       LET algorithm == ExtractAlgorithmType(tag)
           r == SimilarityEngine_calculate_similarity(
                  result_cache_, global_config_, algorithm_configs_, now,
                  p[1], p[2], algorithm, BindingConfig(arg), x86)
       IN  /\ result_cache_' = r.cache
           /\ e_last' = [NoCall EXCEPT !.op = "similarity", !.s1 = p[1],
                                       !.s2 = p[2], !.tag = tag,
                                       !.algorithm = algorithm,
                                       !.arg = arg,
                                       !.final_config = r.final_config,
                                       !.sim = r.result,
                                       !.hit = r.hit,
                                       !.cache_before = result_cache_]
  /\ e_calls' = e_calls + 1
  /\ UNCHANGED <<x86, tvars, kvars, cvars, global_config_, algorithm_configs_, now, xvars>>

CalculateSimilarity ==
  CalculateSimilarityOn(EnginePairs, SupportedAlgorithms, CallArgs)

\* TextSimilarityAddon::CalculateDistance on arguments of the given sets
CalculateDistanceOn(string_pairs, tags, args) ==
  /\ e_calls < MaxCalls
  /\ \E p \in string_pairs, tag \in tags, arg \in args :
       LET algorithm == ExtractAlgorithmType(tag)
           r == SimilarityEngine_calculate_distance(
                  global_config_, algorithm_configs_, p[1], p[2], algorithm,
                  BindingConfig(arg), x86)
       IN  e_last' = [NoCall EXCEPT !.op = "distance", !.s1 = p[1], !.s2 = p[2],
                                    !.tag = tag, !.algorithm = algorithm,
                                    !.arg = arg,
                                    !.final_config = r.final_config,
                                    !.dist = r.result,
                                    !.cache_before = result_cache_]
  /\ e_calls' = e_calls + 1
  /\ UNCHANGED <<x86, tvars, kvars, cvars, global_config_, algorithm_configs_,
                 result_cache_, now, xvars>>

CalculateDistance ==
  CalculateDistanceOn(EnginePairs, SupportedAlgorithms, CallArgs)

CalculateSimilarityBatch ==
  /\ e_calls < MaxCalls
  /\ \E pairs \in BatchPairs, algorithm \in SupportedAlgorithms :
       LET r == calculate_similarity_batch(
                  result_cache_, global_config_, algorithm_configs_, now,
                  pairs, algorithm, BindingConfig({}), x86)
       IN  /\ result_cache_' = r.cache
           /\ e_last' = [NoCall EXCEPT !.op = "batch", !.pairs = pairs,
                                       !.tag = algorithm,
                                       !.algorithm = algorithm,
                                       !.results = r.results,
                                       !.cache_before = result_cache_]
  /\ e_calls' = e_calls + 1
  /\ UNCHANGED <<x86, tvars, kvars, cvars, global_config_, algorithm_configs_, now, xvars>>

SetGlobalConfiguration ==
  /\ e_calls < MaxCalls
  /\ \E obj \in GlobalObjects :
       /\ global_config_' = ExtractConfig(obj)
       /\ e_last' = [NoCall EXCEPT !.op = "set_global", !.arg = {obj},
                                   !.cache_before = result_cache_]
  /\ result_cache_' = clear_caches(result_cache_)
  /\ e_calls' = e_calls + 1
  /\ UNCHANGED <<x86, tvars, kvars, cvars, algorithm_configs_, now, xvars>>

NextEngine ==
  \/ CalculateSimilarity
  \/ CalculateDistance
  \/ CalculateSimilarityBatch
  \/ SetGlobalConfiguration

SpecEngine == InitEngine /\ [][NextEngine]_vars

\* the result of the last calculate_similarity call, had the engine's cache
\* been empty
OnEmptyCache ==
  SimilarityEngine_calculate_similarity(
    EmptyCache, global_config_, algorithm_configs_, now, e_last.s1, e_last.s2,
    e_last.algorithm, BindingConfig(e_last.arg), x86).result

\* C2: calculate_similarity is deterministic in its inputs and
\* configuration: whatever calls came before, its result is the result the
\* same call gives on an engine with an empty cache.
C2_SameAsOnEmptyCache ==
  e_last.op = "similarity" => e_last.sim = OnEmptyCache

\* C4: when set_global_configuration returns, the cache is empty.
C4_SetGlobalConfigurationEmptiesCache ==
  e_last.op = "set_global" => result_cache_ = {}

\* C4 happens: set_global_configuration returned on an engine whose cache
\* held an entry
C4_Witness ==
  /\ e_last.op = "set_global"
  /\ e_last.cache_before # {}
  /\ result_cache_ = {}

\* C7: a calculate_similarity / calculate_distance call with no per-call
\* config is computed under the global configuration: preprocessing,
\* case_sensitivity, ngram_size and the optional parameters of the merged
\* config are those of the global config, unless a per-algorithm config
\* was set for the algorithm.
C7_NoConfigMeansGlobalConfig ==
  (/\ e_last.op \in {"similarity", "distance"}
   /\ e_last.arg = {}
   /\ e_last.algorithm \notin DOMAIN algorithm_configs_)
    => /\ e_last.final_config.preprocessing = global_config_.preprocessing
       /\ e_last.final_config.case_sensitivity = global_config_.case_sensitivity
       /\ e_last.final_config.ngram_size = global_config_.ngram_size
       /\ e_last.final_config.threshold = global_config_.threshold
       /\ e_last.final_config.alpha = global_config_.alpha
       /\ e_last.final_config.beta = global_config_.beta
       /\ e_last.final_config.prefix_weight = global_config_.prefix_weight
       /\ e_last.final_config.prefix_length = global_config_.prefix_length

\* C8: a field given in the per-call config is the field of the merged
\* config, whatever the global configuration and even when the value given
\* is the built-in default.
C8_GivenFieldOverrides ==
  (e_last.op \in {"similarity", "distance"} /\ e_last.arg # {})
    => LET obj == The(e_last.arg)
       IN  /\ obj.caseSensitivity # {}
                => e_last.final_config.case_sensitivity = The(obj.caseSensitivity)
           /\ obj.preprocessing # {}
                => e_last.final_config.preprocessing = The(obj.preprocessing)
           /\ obj.ngramSize # {}
                => e_last.final_config.ngram_size = The(obj.ngramSize)
           /\ obj.threshold # {}
                => e_last.final_config.threshold = obj.threshold

\* the cache after calculate_similarity was called for the first n pairs
RECURSIVE CacheAfter(_, _, _, _)
CacheAfter(cache, pairs, n, algorithm) ==
  IF n = 0 THEN cache
  ELSE SimilarityEngine_calculate_similarity(
         CacheAfter(cache, pairs, n - 1, algorithm), global_config_,
         algorithm_configs_, now, pairs[n][1], pairs[n][2], algorithm,
         BindingConfig({}), x86).cache

\* C9: calculate_similarity_batch returns as many results as it was given
\* pairs, and result i is the result calculate_similarity gives for pair i
\* (called after the pairs before it) with the same algorithm and config;
\* a failing pair's error is at its own index and the others are computed.
C9_BatchIsCallByCall ==
  e_last.op = "batch"
    => /\ Len(e_last.results) = Len(e_last.pairs)
       /\ \A i \in 1..Len(e_last.pairs) :
            e_last.results[i] =
              SimilarityEngine_calculate_similarity(
                CacheAfter(e_last.cache_before, e_last.pairs, i - 1,
                           e_last.algorithm),
                global_config_, algorithm_configs_, now, e_last.pairs[i][1],
                e_last.pairs[i][2], e_last.algorithm, BindingConfig({}),
                x86).result

\* C9 happens: a Hamming batch whose first pair fails (unequal lengths) and
\* whose second pair is computed
C9_Witness ==
  /\ e_last.op = "batch"
  /\ e_last.algorithm = Hamming
  /\ Len(e_last.pairs) = 2
  /\ Len(e_last.results) = 2
  /\ e_last.results[1] = SimErr("InvalidInput")
  /\ e_last.results[2] = SimOk(Zero)

\* C18: for Levenshtein and Hamming, at any point in a sequence of calls,
\* the similarity the engine returns is 1 - dist / max(|s1|, |s2|), dist
\* being the distance the engine returns for the same strings, algorithm
\* and config, and the lengths counted in code points.
C18_SimilarityFromDistance ==
  (e_last.op = "similarity" /\ e_last.sim.ok)
    => LET dist == SimilarityEngine_calculate_distance(
                     global_config_, algorithm_configs_, e_last.s1, e_last.s2,
                     e_last.algorithm, BindingConfig(e_last.arg), x86).result
           max_len == Max2(Len(utf8_to_utf32(e_last.s1)),
                           Len(utf8_to_utf32(e_last.s2)))
       IN  /\ dist.ok
           /\ max_len > 0
                => e_last.sim.value = Frac(max_len - dist.value, max_len)

(***************************************************************************)
(* The host specification: up to MaxCalls calculateSimilarity /            *)
(* calculateDistance calls whose arguments also take the values a host     *)
(* can pass beyond the well-formed ones: numbers that are no algorithm     *)
(* tag, configs that fail validation, a maxStringLength, strings that      *)
(* hold the cache key's separator.                                         *)
(***************************************************************************)
\* the pairs of the engine specification, ("", "||") and ("|", "|")
HostPairs ==
  EnginePairs \cup {<<utf32_to_utf8(<<>>), utf32_to_utf8(<<124, 124>>)>>,
                    <<utf32_to_utf8(<<124>>), utf32_to_utf8(<<124>>)>>}

\* the per-call config argument: those of the engine specification,
\* {ngramSize: 0}, {maxStringLength: 1} and {threshold: -1}
HostArgs ==
  CallArgs \cup {{[EmptyObject EXCEPT !.ngramSize = {0}]},
                 {[EmptyObject EXCEPT !.maxStringLength = {1}]},
                 {[EmptyObject EXCEPT !.threshold = {-1}]}}

\* the algorithm argument, a JavaScript number: a tag of a modelled
\* algorithm, or a number that is no tag (13, 256, -1)
AlgorithmTags == SupportedAlgorithms \cup {13, 256, -1}

HostCalculateSimilarity ==
  CalculateSimilarityOn(HostPairs, AlgorithmTags, HostArgs)

HostCalculateDistance ==
  CalculateDistanceOn(HostPairs, AlgorithmTags, HostArgs)

NextHost ==
  \/ HostCalculateSimilarity
  \/ HostCalculateDistance

SpecHost == InitEngine /\ [][NextHost]_vars

\* the Result of the last calculate_similarity / calculate_distance call
LastResult == IF e_last.op = "similarity" THEN e_last.sim ELSE e_last.dist

\* C12: a calculate_similarity / calculate_distance call whose merged
\* config violates the validation rules (here ngram_size = 0, or a
\* threshold below 0) returns an
\* unsuccessful Result with code InvalidConfiguration.
C12_InvalidConfigurationCode ==
  (/\ e_last.op \in {"similarity", "distance"}
   /\ e_last.algorithm \in SupportedAlgorithms
   /\ ~validate_configuration(e_last.final_config))
    => /\ ~LastResult.ok
       /\ LastResult.code = "InvalidConfiguration"

\* the limit the last call's configuration asks for: the per-call
\* maxStringLength, else the global one, else 100 000 bytes
EffectiveMaxStringLength ==
  LET config == BindingConfig(e_last.arg)
  IN  IF config.max_string_length # {} THEN The(config.max_string_length)
      ELSE IF global_config_.max_string_length # {}
        THEN The(global_config_.max_string_length)
        ELSE MAX_STRING_LENGTH

\* C14: a calculate_similarity / calculate_distance call is rejected with
\* InvalidInput when the byte length of either string exceeds the
\* effective max_string_length: the configured value when there is one,
\* 100 000 otherwise (stated for the calls that name a modelled algorithm).
C14_ConfiguredLengthLimit ==
  (/\ e_last.op \in {"similarity", "distance"}
   /\ e_last.tag \in SupportedAlgorithms
   /\ \/ Len(e_last.s1) > EffectiveMaxStringLength
      \/ Len(e_last.s2) > EffectiveMaxStringLength)
    => /\ ~LastResult.ok
       /\ LastResult.code = "InvalidInput"

\* C15: for every integer algorithm tag outside 0..12 given at the host
\* boundary, negative ones and those of 256 and above included,
\* calculateSimilarity / calculateDistance returns an unsuccessful result
\* with code InvalidConfiguration.
C15_UnknownTagRejected ==
  (/\ e_last.op \in {"similarity", "distance"}
   /\ e_last.tag \notin 0..12)
    => /\ ~LastResult.ok
       /\ LastResult.code = "InvalidConfiguration"

\* C17: for every string s, every algorithm and every valid config,
\* sim(s, s) = 1 and dist(s, s) = 0, whatever calls were made on the engine
\* before.
C17_Identity ==
  (/\ e_last.op \in {"similarity", "distance"}
   /\ e_last.s1 = e_last.s2
   /\ e_last.tag \in SupportedAlgorithms
   /\ validate_configuration(e_last.final_config))
    => /\ e_last.op = "similarity" => e_last.sim = SimOk(One)
       /\ e_last.op = "distance" => e_last.dist = DistOk(0)

\* C24: a calculate_similarity call whose merged config is invalid returns
\* an error, also when the cache holds an entry for the same algorithm,
\* preprocessing, case mode, ngram_size and strings.
C24_InvalidConfigNeverAnswered ==
  (/\ e_last.op = "similarity"
   /\ ~validate_configuration(e_last.final_config))
    => ~e_last.sim.ok

(***************************************************************************)
(* The cache specification: an engine whose cache is full, or one entry    *)
(* short of full, after MAX_CACHE_SIZE earlier calls; two threads then     *)
(* make one calculate_similarity call each, concurrently.  A call takes    *)
(* cache_mutex_ twice, in get_cached_result and in cache_result; each      *)
(* critical section is one step.                                           *)
(***************************************************************************)
\* the key the call calculate_similarity(Decimal(i), "", Levenshtein) stores
FillerKey(i) ==
  create_cache_key(Decimal(i), <<>>, Levenshtein,
                   FinalConfig(AlgorithmConfig, <<>>, Levenshtein, AlgorithmConfig))

\* the cache after the calls calculate_similarity(Decimal(i), "", Levenshtein)
\* for i = 1..n: the first `old` made in minute 0, the next `mid` in minute
\* 1, the others in minute 2; each stored similarity 0
FilledCache(n, old, mid) ==
  {[key |-> FillerKey(i), result |-> Zero,
    timestamp |-> IF i <= old THEN 0 ELSE IF i <= old + mid THEN 1 ELSE 2] :
     i \in 1..n}

\* how many entries a filled cache has
CacheSizes == {MAX_CACHE_SIZE - 1, MAX_CACHE_SIZE}
\* how many of them are of minute 0 and of minute 1
CacheFills ==
  {<<MAX_CACHE_SIZE \div 2, 0>>, <<(MAX_CACHE_SIZE \div 2) - 2, 3>>}
\* the minute the concurrent calls are made in: at 5 the entries of minute
\* 0 have expired
CacheClocks == {2, CACHE_TTL}

\* ("1", ""), whose key is in a filled cache, and ("A", "a"), whose key
\* is not
CachePairs == {<<Decimal(1), <<>> >>, << <<65>>, <<97>> >>}

InitCache ==
  /\ x86 \in BOOLEAN
  /\ KernelIdle
  /\ CacheKeyIdle
  /\ ExecutorIdle
  /\ ThreadsIdle
  /\ global_config_ = AlgorithmConfig
  /\ algorithm_configs_ = <<>>
  /\ \E n \in CacheSizes, fill \in CacheFills :
       result_cache_ = FilledCache(n, fill[1], fill[2])
  /\ now \in CacheClocks
  /\ e_calls = 0
  /\ e_last = NoCall

\* a thread enters calculate_similarity and runs it up to cache_result
\* (the probe under cache_mutex_, then the algorithm), or to its return
ProbeCache(t) ==
  /\ t_calls[t].pc = "idle"
  /\ \E p \in CachePairs :
       LET call == calculate_similarity_until_store(
                     result_cache_, global_config_, algorithm_configs_, now,
                     p[1], p[2], Levenshtein, AlgorithmConfig, x86)
       IN  /\ result_cache_' = call.cache
           /\ t_calls' =
                [t_calls EXCEPT
                   ![t] = [pc |-> IF call.returned THEN "returned" ELSE "store",
                           key |-> call.cache_key, result |-> call.result,
                           hit |-> call.hit,
                           size_before |-> Cardinality(result_cache_),
                           global |-> global_config_]]
  /\ e_calls' = e_calls + 1
  /\ UNCHANGED <<x86, kvars, cvars, global_config_, algorithm_configs_, now,
                 e_last, xvars, t_config>>

\* the thread's cache_result, under cache_mutex_, and its return
StoreResult(t) ==
  /\ t_calls[t].pc = "store"
  /\ result_cache_' = cache_result(result_cache_, t_calls[t].key,
                                   t_calls[t].result.value, now)
  /\ t_calls' = [t_calls EXCEPT
                   ![t].pc = "returned",
                   ![t].size_before = Cardinality(result_cache_)]
  /\ UNCHANGED <<x86, kvars, cvars, global_config_, algorithm_configs_, now,
                 e_calls, e_last, xvars, t_config>>

NextCache == \E t \in Threads : ProbeCache(t) \/ StoreResult(t)

SpecCache == InitCache /\ [][NextCache]_vars

\* C20: the result cache never holds more than 10 000 entries, after any
\* sequence of calculate_similarity calls, concurrent ones included.
C20_CacheBounded == Cardinality(result_cache_) <= MAX_CACHE_SIZE

\* C20 happens: a thread's cache_result found the cache full, with a key
\* the cache did not hold, and left no more than 10 000 entries
C20_Witness ==
  \E t \in Threads :
    /\ t_calls[t].pc = "returned"
    /\ ~t_calls[t].hit
    /\ t_calls[t].size_before = MAX_CACHE_SIZE
    /\ \E entry \in result_cache_ : entry.key = t_calls[t].key
    /\ Cardinality(result_cache_) <= MAX_CACHE_SIZE

(***************************************************************************)
(* The reconfiguration specification: on a fresh engine two threads make   *)
(* one calculate_similarity call each while a third calls                  *)
(* set_global_configuration, which takes the configuration manager's       *)
(* mutex_ in set_global_config and then cache_mutex_ in clear_caches: two  *)
(* critical sections, two steps.                                           *)
(***************************************************************************)
\* set_global_configuration: config_manager_->set_global_config
SetGlobalConfig ==
  /\ t_config = "idle"
  /\ \E obj \in GlobalObjects : global_config_' = ExtractConfig(obj)
  /\ t_config' = "clear"
  /\ UNCHANGED <<x86, kvars, cvars, algorithm_configs_, result_cache_, now,
                 e_calls, e_last, xvars, t_calls>>

\* set_global_configuration: clear_caches, and the return
ClearCaches ==
  /\ t_config = "clear"
  /\ result_cache_' = clear_caches(result_cache_)
  /\ t_config' = "returned"
  /\ UNCHANGED <<x86, kvars, cvars, global_config_, algorithm_configs_, now,
                 e_calls, e_last, xvars, t_calls>>

NextReconfigure ==
  \/ \E t \in Threads : ProbeCache(t) \/ StoreResult(t)
  \/ SetGlobalConfig
  \/ ClearCaches

SpecReconfigure == InitEngine /\ [][NextReconfigure]_vars

\* C25: once set_global_configuration has returned and the concurrent
\* calculate_similarity calls have finished, the cache holds no value
\* computed under the previous global configuration: no entry under the
\* key of a call that read a global configuration other than the present
\* one (every configuration set here changes the key).
C25_NoStaleEntryAfterReconfiguration ==
  (/\ t_config = "returned"
   /\ \A t \in Threads : t_calls[t].pc # "store")
    => \A t \in Threads :
         (t_calls[t].pc = "returned" /\ t_calls[t].global # global_config_)
           => \A entry \in result_cache_ : entry.key # t_calls[t].key

(***************************************************************************)
(* AsyncExecutor (engine/similarity_engine.cpp).  A submission runs its    *)
(* critical section under queue_mutex_, and its notify_one, in one step.   *)
(* A worker in cv_.wait tests the predicate under queue_mutex_ and, when   *)
(* it is false, blocks in the same step (the wait releases the mutex       *)
(* atomically); a blocked worker tests again once a notification, or a     *)
(* spurious wake-up, has woken it.                                         *)
(***************************************************************************)
\* the workers blocked in cv_.wait
Blocked(workers) == {w \in DOMAIN workers : workers[w].pc = "blocked"}

\* cv_.notify_all() without effect
notify_none(workers) == workers

\* cv_.notify_all(): every blocked worker wakes
notify_all(workers) ==
  [w \in DOMAIN workers |->
     IF workers[w].pc = "blocked" THEN [workers[w] EXCEPT !.pc = "wait"]
     ELSE workers[w]]

\* cv_.notify_one(): what the workers can be after it; one blocked worker
\* wakes, if there is one
notify_one(workers) ==
  IF Blocked(workers) = {} THEN {workers}
  ELSE {[workers EXCEPT ![w].pc = "wait"] : w \in Blocked(workers)}

\* a worker that takes the newest task
take_back(queue) ==
  [task |-> queue[Len(queue)], queue |-> SubSeq(queue, 1, Len(queue) - 1)]

\* task_queue_.front() and task_queue_.pop()
take_front(queue) == [task |-> Head(queue), queue |-> Tail(queue)]

\* a submission that never looks at shutdown_
calculate_similarity_async_always_enqueuing(shutdown, queue, id) ==
  [accepted |-> TRUE, queue |-> Append(queue, id), result |-> NoSimilarity]

\* the critical section of calculate_similarity_async: the promise is set
\* at once when the executor is shutting down, else the task is queued
calculate_similarity_async(shutdown, queue, id) ==
  IF shutdown
    THEN [accepted |-> FALSE, queue |-> queue, result |-> SimErr("ThreadingError")]
    ELSE [accepted |-> TRUE, queue |-> Append(queue, id), result |-> NoSimilarity]

calculate_distance_async(shutdown, queue, id) ==
  IF shutdown
    THEN [accepted |-> FALSE, queue |-> queue, result |-> DistErr("ThreadingError")]
    ELSE [accepted |-> TRUE, queue |-> Append(queue, id), result |-> NoDistance]

Workers == 1..NumWorkers

\* a task holds its algorithm object (type and config) and its strings; those
\* of the executor specification are Levenshtein objects of the default
\* config that compare "A" and "a"
TaskS1 == UnicodeStringFromUtf8(<<65>>)
TaskS2 == UnicodeStringFromUtf8(<<97>>)

NoFuture == [sets |-> 0, sim |-> NoSimilarity, dist |-> NoDistance]

InitExecutor ==
  /\ x86 \in BOOLEAN
  /\ KernelIdle
  /\ CacheKeyIdle
  /\ EngineIdle
  /\ ThreadsIdle
  /\ shutdown_ = FALSE
  /\ task_queue_ = <<>>
  /\ x_workers = [w \in Workers |-> [pc |-> "loop", task |-> 0]]
  /\ x_tasks = <<>>
  /\ x_futures = <<>>
  /\ x_shutdown = "idle"

SubmitSimilarity ==
  /\ Len(x_tasks) < MaxTasks
  /\ LET id == Len(x_tasks) + 1
         r == calculate_similarity_async(shutdown_, task_queue_, id)
     IN  /\ task_queue_' = r.queue
         /\ x_workers' \in IF r.accepted THEN notify_one(x_workers)
                                         ELSE {x_workers}
         /\ x_tasks' = Append(x_tasks,
                              [kind |-> "similarity",
                               after_shutdown |-> x_shutdown # "idle",
                               status |-> IF r.accepted THEN "queued"
                                                        ELSE "rejected",
                               algorithm |-> Levenshtein,
                               config |-> AlgorithmConfig,
                               s1 |-> TaskS1, s2 |-> TaskS2,
                               given |-> AlgorithmConfig])
         /\ x_futures' = Append(x_futures,
                                IF r.accepted THEN NoFuture
                                ELSE [NoFuture EXCEPT !.sets = 1, !.sim = r.result])
  /\ UNCHANGED <<x86, tvars, kvars, cvars, evars, shutdown_, x_shutdown>>

SubmitDistance ==
  /\ Len(x_tasks) < MaxTasks
  /\ LET id == Len(x_tasks) + 1
         r == calculate_distance_async(shutdown_, task_queue_, id)
     IN  /\ task_queue_' = r.queue
         /\ x_workers' \in IF r.accepted THEN notify_one(x_workers)
                                         ELSE {x_workers}
         /\ x_tasks' = Append(x_tasks,
                              [kind |-> "distance",
                               after_shutdown |-> x_shutdown # "idle",
                               status |-> IF r.accepted THEN "queued"
                                                        ELSE "rejected",
                               algorithm |-> Levenshtein,
                               config |-> AlgorithmConfig,
                               s1 |-> TaskS1, s2 |-> TaskS2,
                               given |-> AlgorithmConfig])
         /\ x_futures' = Append(x_futures,
                                IF r.accepted THEN NoFuture
                                ELSE [NoFuture EXCEPT !.sets = 1, !.dist = r.result])
  /\ UNCHANGED <<x86, tvars, kvars, cvars, evars, shutdown_, x_shutdown>>

\* worker_loop: the test of while (!shutdown_)
WorkerLoop(w) ==
  /\ x_workers[w].pc = "loop"
  /\ x_workers' = [x_workers EXCEPT
                     ![w].pc = IF shutdown_ THEN "exited" ELSE "wait"]
  /\ UNCHANGED <<x86, tvars, kvars, cvars, evars, shutdown_, task_queue_, x_tasks,
                 x_futures, x_shutdown>>

\* worker_loop: the critical section: the test of the wait's predicate,
\* then the break, or the task taken off the queue, or the wait itself
WorkerWait(w) ==
  /\ x_workers[w].pc = "wait"
  /\ IF shutdown_
       THEN /\ x_workers' = [x_workers EXCEPT ![w].pc = "exited"]
            /\ UNCHANGED <<task_queue_, x_tasks>>
     ELSE IF task_queue_ # <<>>
       THEN /\ x_workers' = [x_workers EXCEPT
                               ![w].pc = "run",
                               ![w].task = take_front(task_queue_).task]
            /\ task_queue_' = take_front(task_queue_).queue
            /\ x_tasks' = [x_tasks EXCEPT
                             ![take_front(task_queue_).task].status = "running"]
     ELSE /\ x_workers' = [x_workers EXCEPT ![w].pc = "blocked"]
          /\ UNCHANGED <<task_queue_, x_tasks>>
  /\ UNCHANGED <<x86, tvars, kvars, cvars, evars, shutdown_, x_futures, x_shutdown>>

\* a spurious wake-up of a worker blocked in cv_.wait
WorkerSpuriousWake(w) ==
  /\ x_workers[w].pc = "blocked"
  /\ x_workers' = [x_workers EXCEPT ![w].pc = "wait"]
  /\ UNCHANGED <<x86, tvars, kvars, cvars, evars, shutdown_, task_queue_, x_tasks,
                 x_futures, x_shutdown>>

\* worker_loop: task.work(), which sets the promise
WorkerRun(w) ==
  /\ x_workers[w].pc = "run"
  /\ LET id == x_workers[w].task
     IN  /\ x_futures' =
               [x_futures EXCEPT
                  ![id] = IF x_tasks[id].kind = "similarity"
                            THEN [@ EXCEPT !.sets = @ + 1,
                                           !.sim = calculate_similarity(
                                                     x_tasks[id].algorithm,
                                                     x_tasks[id].config,
                                                     x_tasks[id].s1,
                                                     x_tasks[id].s2, x86)]
                            ELSE [@ EXCEPT !.sets = @ + 1,
                                           !.dist = calculate_distance(
                                                      x_tasks[id].algorithm,
                                                      x_tasks[id].config,
                                                      x_tasks[id].s1,
                                                      x_tasks[id].s2, x86)]]
         /\ x_tasks' = [x_tasks EXCEPT ![id].status = "done"]
  /\ x_workers' = [x_workers EXCEPT ![w].pc = "loop", ![w].task = 0]
  /\ UNCHANGED <<x86, tvars, kvars, cvars, evars, shutdown_, task_queue_, x_shutdown>>

\* shutdown(): sets the flag under queue_mutex_
Shutdown ==
  /\ x_shutdown = "idle"
  /\ shutdown_' = TRUE
  /\ x_shutdown' = "notify"
  /\ UNCHANGED <<x86, tvars, kvars, cvars, evars, task_queue_, x_workers, x_tasks,
                 x_futures>>

\* shutdown(): cv_.notify_all()
ShutdownNotify ==
  /\ x_shutdown = "notify"
  /\ x_workers' = notify_all(x_workers)
  /\ x_shutdown' = "joining"
  /\ UNCHANGED <<x86, tvars, kvars, cvars, evars, shutdown_, task_queue_, x_tasks,
                 x_futures>>

\* shutdown(): every worker is joined, and the call returns
ShutdownJoin ==
  /\ x_shutdown = "joining"
  /\ \A w \in Workers : x_workers[w].pc = "exited"
  /\ x_shutdown' = "returned"
  /\ UNCHANGED <<x86, tvars, kvars, cvars, evars, shutdown_, task_queue_, x_workers,
                 x_tasks, x_futures>>

NextExecutor ==
  \/ SubmitSimilarity
  \/ SubmitDistance
  \/ \E w \in Workers : WorkerLoop(w) \/ WorkerWait(w) \/ WorkerRun(w)
  \/ \E w \in Workers : WorkerSpuriousWake(w)
  \/ Shutdown
  \/ ShutdownNotify
  \/ ShutdownJoin

SpecExecutor == InitExecutor /\ [][NextExecutor]_vars

\* C3: every submission's future becomes ready with exactly one Result,
\* tasks queued when shutdown is called included: no future is set twice,
\* and once shutdown has returned (no worker is left to run anything) every
\* future is ready.
C3_EveryFutureDelivered ==
  /\ \A id \in DOMAIN x_futures : x_futures[id].sets <= 1
  /\ x_shutdown = "returned"
       => \A id \in DOMAIN x_futures : x_futures[id].sets = 1

\* C6: a submission made after shutdown was called is complete with an
\* unsuccessful ThreadingError Result, and its task is neither queued nor run.
C6_RejectedAfterShutdown ==
  \A id \in DOMAIN x_tasks :
    x_tasks[id].after_shutdown
      => /\ x_futures[id].sets = 1
         /\ IF x_tasks[id].kind = "similarity"
              THEN x_futures[id].sim = SimErr("ThreadingError")
              ELSE x_futures[id].dist = DistErr("ThreadingError")
         /\ x_tasks[id].status = "rejected"
         /\ \A i \in DOMAIN task_queue_ : task_queue_[i] # id
         /\ \A w \in Workers : x_workers[w].task # id

\* C6 happens: a similarity and a distance submission were both made after
\* shutdown was called, and both hold a ThreadingError
C6_Witness ==
  /\ Len(x_tasks) >= 2
  /\ \E i, j \in DOMAIN x_tasks :
       /\ x_tasks[i].after_shutdown /\ x_tasks[i].kind = "similarity"
       /\ x_futures[i].sim = SimErr("ThreadingError")
       /\ x_tasks[j].after_shutdown /\ x_tasks[j].kind = "distance"
       /\ x_futures[j].dist = DistErr("ThreadingError")

\* shutdown() and worker_loop handle every task alike, whatever it computes:
\* the executor with similarity submissions only
NextShutdown ==
  \/ SubmitSimilarity
  \/ \E w \in Workers : WorkerLoop(w) \/ WorkerWait(w) \/ WorkerRun(w)
  \/ \E w \in Workers : WorkerSpuriousWake(w)
  \/ Shutdown
  \/ ShutdownNotify
  \/ ShutdownJoin

\* The threads of the process are scheduled fairly and a task's computation
\* ends: a worker that can take its next step takes it, and so does the
\* thread in shutdown().  Nothing promises a spurious wake-up or a further
\* submission.
SpecShutdown ==
  /\ InitExecutor /\ [][NextShutdown]_vars
  /\ \A w \in Workers :
       WF_vars(WorkerLoop(w)) /\ WF_vars(WorkerWait(w)) /\ WF_vars(WorkerRun(w))
  /\ WF_vars(ShutdownNotify)
  /\ WF_vars(ShutdownJoin)

\* C26: once shutdown() has set the flag no worker starts a task (a worker
\* only finishes the task it is running), and shutdown() eventually
\* returns, with every worker out of worker_loop: no worker stays blocked
\* in the wait.
C26_ShutdownJoinsEveryWorker ==
  /\ [][shutdown_ =>
          \A id \in DOMAIN x_tasks :
            x_tasks'[id].status = "running" => x_tasks[id].status = "running"]_vars
  /\ (x_shutdown = "notify")
       ~> (x_shutdown = "returned" /\ \A w \in Workers : x_workers[w].pc = "exited")

\* C26 happens: shutdown() was called while one worker ran a task and
\* another was blocked in the wait
C26_Witness ==
  /\ x_shutdown = "notify"
  /\ \E w \in Workers : x_workers[w].pc = "run"
  /\ \E w \in Workers : x_workers[w].pc = "blocked"

\* C29: a worker takes a task off the queue only when no task submitted
\* earlier is still waiting in the queue.
C29_TasksStartInSubmissionOrder ==
  [][\A id \in DOMAIN x_tasks :
       (x_tasks[id].status = "queued" /\ x_tasks'[id].status = "running")
         => \A earlier \in 1..(id - 1) : x_tasks[earlier].status # "queued"]_vars

\* C29 happens: a worker runs a task that was not the first submission
\* while a later submission waits in the queue
C29_Witness ==
  \E id \in DOMAIN x_tasks :
    /\ id > 1
    /\ x_tasks[id].status = "running"
    /\ \E later \in DOMAIN x_tasks : later > id /\ x_tasks[later].status = "queued"

(***************************************************************************)
(* The asynchronous entry points of the engine                             *)
(* (engine/similarity_engine.cpp).  A caller of the C++ interface makes    *)
(* up to MaxCalls calculate_similarity_async / calculate_distance_async    *)
(* calls and waits for each future before the next call; the executor's    *)
(* workers run the tasks.                                                  *)
(***************************************************************************)
\* the config an asynchronous call computes under: the per-call config is
\* merged in whatever it holds
AsyncFinalConfig(global, algorithm_configs, algorithm, config) ==
  merge_configs(
    merge_configs(global, get_algorithm_config(algorithm_configs, algorithm),
                  algorithm),
    config, algorithm)

\* SimilarityEngine::calculate_similarity_async up to the executor: whether
\* the future it returns is ready at once, with what, and the config of the
\* algorithm object it hands over otherwise
SimilarityEngine_calculate_similarity_async(global, algorithm_configs, s1, s2, algorithm, config) ==
  LET final_config == AsyncFinalConfig(global, algorithm_configs, algorithm, config)
  IN  IF ~validate_input(s1, s2)
        THEN [ready |-> TRUE, result |-> SimErr("InvalidInput"),
              final_config |-> final_config]
      ELSE IF ~create_algorithm_succeeds(algorithm, final_config)
        THEN [ready |-> TRUE, result |-> SimErr("Unknown"),
              final_config |-> final_config]
      ELSE [ready |-> FALSE, result |-> NoSimilarity,
            final_config |-> final_config]

SimilarityEngine_calculate_distance_async(global, algorithm_configs, s1, s2, algorithm, config) ==
  LET final_config == AsyncFinalConfig(global, algorithm_configs, algorithm, config)
  IN  IF ~validate_input(s1, s2)
        THEN [ready |-> TRUE, result |-> DistErr("InvalidInput"),
              final_config |-> final_config]
      ELSE IF ~create_algorithm_succeeds(algorithm, final_config)
        THEN [ready |-> TRUE, result |-> DistErr("Unknown"),
              final_config |-> final_config]
      ELSE [ready |-> FALSE, result |-> NoDistance,
            final_config |-> final_config]

\* the per-call configs: AlgorithmConfig{}, one with case_sensitivity
\* Insensitive, one with case_sensitivity Insensitive and preprocessing None,
\* one with ngram_size 0
AsyncConfigs ==
  {AlgorithmConfig,
   [AlgorithmConfig EXCEPT !.case_sensitivity = Insensitive],
   [AlgorithmConfig EXCEPT !.case_sensitivity = Insensitive,
                           !.preprocessing = PreNone],
   [AlgorithmConfig EXCEPT !.ngram_size = 0]}

InitAsync ==
  /\ x86 \in BOOLEAN
  /\ KernelIdle
  /\ CacheKeyIdle
  /\ EngineIdle
  /\ ThreadsIdle
  /\ shutdown_ = FALSE
  /\ task_queue_ = <<>>
  /\ x_workers = [w \in Workers |-> [pc |-> "loop", task |-> 0]]
  /\ x_tasks = <<>>
  /\ x_futures = <<>>
  /\ x_shutdown = "idle"

\* every future returned so far is ready
AllDelivered == \A id \in DOMAIN x_futures : x_futures[id].sets = 1

\* SimilarityEngine::calculate_similarity_async on arguments of the given
\* sets, the executor's critical section included
CalculateSimilarityAsyncOn(string_pairs, algorithms, configs) ==
  /\ Len(x_tasks) < MaxCalls
  /\ AllDelivered
  /\ \E p \in string_pairs, algorithm \in algorithms, config \in configs :
       LET id == Len(x_tasks) + 1
           call == SimilarityEngine_calculate_similarity_async(
                     global_config_, algorithm_configs_, p[1], p[2], algorithm,
                     config)
           r == calculate_similarity_async(shutdown_, task_queue_, id)
       IN  /\ task_queue_' = IF call.ready THEN task_queue_ ELSE r.queue
           /\ x_workers' \in IF ~call.ready /\ r.accepted
                               THEN notify_one(x_workers) ELSE {x_workers}
           /\ x_tasks' = Append(x_tasks,
                                [kind |-> "similarity",
                                 after_shutdown |-> x_shutdown # "idle",
                                 status |-> IF call.ready THEN "ready"
                                            ELSE IF r.accepted THEN "queued"
                                            ELSE "rejected",
                                 algorithm |-> algorithm,
                                 config |-> call.final_config,
                                 s1 |-> UnicodeStringFromUtf8(p[1]),
                                 s2 |-> UnicodeStringFromUtf8(p[2]),
                                 given |-> config])
           /\ x_futures' = Append(x_futures,
                                  IF call.ready
                                    THEN [NoFuture EXCEPT !.sets = 1,
                                                          !.sim = call.result]
                                  ELSE IF r.accepted THEN NoFuture
                                  ELSE [NoFuture EXCEPT !.sets = 1,
                                                        !.sim = r.result])
  /\ UNCHANGED <<x86, tvars, kvars, cvars, evars, shutdown_, x_shutdown>>

CalculateSimilarityAsync ==
  CalculateSimilarityAsyncOn(EnginePairs, SupportedAlgorithms, AsyncConfigs)

\* SimilarityEngine::calculate_distance_async, likewise
CalculateDistanceAsyncOn(string_pairs, algorithms, configs) ==
  /\ Len(x_tasks) < MaxCalls
  /\ AllDelivered
  /\ \E p \in string_pairs, algorithm \in algorithms, config \in configs :
       LET id == Len(x_tasks) + 1
           call == SimilarityEngine_calculate_distance_async(
                     global_config_, algorithm_configs_, p[1], p[2], algorithm,
                     config)
           r == calculate_distance_async(shutdown_, task_queue_, id)
       IN  /\ task_queue_' = IF call.ready THEN task_queue_ ELSE r.queue
           /\ x_workers' \in IF ~call.ready /\ r.accepted
                               THEN notify_one(x_workers) ELSE {x_workers}
           /\ x_tasks' = Append(x_tasks,
                                [kind |-> "distance",
                                 after_shutdown |-> x_shutdown # "idle",
                                 status |-> IF call.ready THEN "ready"
                                            ELSE IF r.accepted THEN "queued"
                                            ELSE "rejected",
                                 algorithm |-> algorithm,
                                 config |-> call.final_config,
                                 s1 |-> UnicodeStringFromUtf8(p[1]),
                                 s2 |-> UnicodeStringFromUtf8(p[2]),
                                 given |-> config])
           /\ x_futures' = Append(x_futures,
                                  IF call.ready
                                    THEN [NoFuture EXCEPT !.sets = 1,
                                                          !.dist = call.result]
                                  ELSE IF r.accepted THEN NoFuture
                                  ELSE [NoFuture EXCEPT !.sets = 1,
                                                        !.dist = r.result])
  /\ UNCHANGED <<x86, tvars, kvars, cvars, evars, shutdown_, x_shutdown>>

CalculateDistanceAsync ==
  CalculateDistanceAsyncOn(EnginePairs, SupportedAlgorithms, AsyncConfigs)

NextAsync ==
  \/ CalculateSimilarityAsync
  \/ CalculateDistanceAsync
  \/ \E w \in Workers : WorkerLoop(w) \/ WorkerWait(w) \/ WorkerRun(w)
  \/ \E w \in Workers : WorkerSpuriousWake(w)

SpecAsync == InitAsync /\ [][NextAsync]_vars

\* C21: the Result an asynchronous call's future delivers is the Result the
\* synchronous call gives for the same strings, algorithm, per-call config
\* and global config.
C21_AsyncSameAsSync ==
  \A id \in DOMAIN x_futures :
    x_futures[id].sets = 1
      => IF x_tasks[id].kind = "similarity"
           THEN x_futures[id].sim =
                  SimilarityEngine_calculate_similarity(
                    result_cache_, global_config_, algorithm_configs_, now,
                    x_tasks[id].s1.utf8, x_tasks[id].s2.utf8,
                    x_tasks[id].algorithm, x_tasks[id].given, x86).result
           ELSE x_futures[id].dist =
                  SimilarityEngine_calculate_distance(
                    global_config_, algorithm_configs_, x_tasks[id].s1.utf8,
                    x_tasks[id].s2.utf8, x_tasks[id].algorithm,
                    x_tasks[id].given, x86).result

(***************************************************************************)
(* The entry points of the engine side by side: up to MaxCalls             *)
(* calculate_similarity / calculate_distance calls and up to MaxCalls      *)
(* asynchronous calls on one engine, none with a per-call config, the      *)
(* asynchronous ones on ("A", "a") under Levenshtein.                      *)
(***************************************************************************)
EntryPointAsyncPairs == {<<utf32_to_utf8(<<65>>), utf32_to_utf8(<<97>>)>>}

EntryPointSimilarity ==
  CalculateSimilarityOn(EnginePairs, SupportedAlgorithms, {{}})

EntryPointDistance ==
  CalculateDistanceOn(EnginePairs, SupportedAlgorithms, {{}})

EntryPointSimilarityAsync ==
  CalculateSimilarityAsyncOn(EntryPointAsyncPairs, {Levenshtein}, {AlgorithmConfig})

EntryPointDistanceAsync ==
  CalculateDistanceAsyncOn(EntryPointAsyncPairs, {Levenshtein}, {AlgorithmConfig})

NextEntryPoints ==
  \/ EntryPointSimilarity
  \/ EntryPointDistance
  \/ EntryPointSimilarityAsync
  \/ EntryPointDistanceAsync
  \/ \E w \in Workers : WorkerLoop(w) \/ WorkerWait(w) \/ WorkerRun(w)
  \/ \E w \in Workers : WorkerSpuriousWake(w)

SpecEntryPoints == InitAsync /\ [][NextEntryPoints]_vars

\* C27: a step that puts an entry into the cache, a new one or one in the
\* place of another, is a calculate_similarity call that returns a success:
\* no calculate_distance call, no asynchronous call or task and no failing
\* calculate_similarity call does.
C27_OnlySuccessfulSimilarityWrites ==
  [][result_cache_' \ result_cache_ # {}
       => /\ e_calls' = e_calls + 1
          /\ e_last'.op = "similarity"
          /\ e_last'.sim.ok]_vars

\* C27 happens: calculate_similarity has failed on an engine whose cache
\* holds an entry, and an asynchronous task has run
C27_Witness ==
  /\ e_last.op = "similarity"
  /\ ~e_last.sim.ok
  /\ e_last.cache_before # {}
  /\ result_cache_ = e_last.cache_before
  /\ \E id \in DOMAIN x_tasks : x_tasks[id].status = "done"

(***************************************************************************)
(* The cache's clock: an engine that has answered one call at minute 0,    *)
(* then up to MaxCalls calculate_similarity calls while steady_clock       *)
(* advances minute by minute past the TTL.                                 *)
(***************************************************************************)
MaxClock == CACHE_TTL + 1

\* what the first call, at minute 0, left in the cache
FirstCallCaches ==
  {SimilarityEngine_calculate_similarity(
     EmptyCache, AlgorithmConfig, <<>>, 0, p[1], p[2], algorithm,
     BindingConfig({}), isx86).cache :
     p \in EnginePairs, algorithm \in SupportedAlgorithms, isx86 \in BOOLEAN}

InitTtl ==
  /\ x86 \in BOOLEAN
  /\ KernelIdle
  /\ CacheKeyIdle
  /\ ExecutorIdle
  /\ ThreadsIdle
  /\ global_config_ = AlgorithmConfig
  /\ algorithm_configs_ = <<>>
  /\ result_cache_ \in FirstCallCaches
  /\ now = 0
  /\ e_calls = 0
  /\ e_last = NoCall

\* std::chrono::steady_clock: a minute passes
Tick ==
  /\ now < MaxClock
  /\ now' = now + 1
  /\ UNCHANGED <<x86, tvars, kvars, cvars, global_config_, algorithm_configs_,
                 result_cache_, e_calls, e_last, xvars>>

NextTtl == EntryPointSimilarity \/ Tick

SpecTtl == InitTtl /\ [][NextTtl]_vars

\* C28: a calculate_similarity call is answered from the cache only by an
\* entry of its key whose timestamp is less than CACHE_TTL back; an entry
\* of its key whose timestamp is CACHE_TTL back or more does not answer
\* it and is gone from the cache after the call; and the timestamp of an
\* entry is the time of the call that wrote it.
C28_HitOnlyWithinTtl ==
  [][(e_calls' = e_calls + 1 /\ e_last'.op = "similarity")
       => LET key == create_cache_key(e_last'.s1, e_last'.s2, e_last'.algorithm,
                                      e_last'.final_config)
              it == {entry \in result_cache_ : entry.key = key}
          IN  /\ e_last'.hit
                   => \E entry \in it :
                        /\ now - entry.timestamp < CACHE_TTL
                        /\ e_last'.sim = SimOk(entry.result)
              /\ \A entry \in it :
                   now - entry.timestamp >= CACHE_TTL
                     => ~e_last'.hit /\ entry \notin result_cache_'
              /\ \A entry \in result_cache_' \ result_cache_ :
                   entry.timestamp = now]_vars

\* C28 happens: the last call found an entry of its key at or past the TTL,
\* which is gone, and wrote the entry anew
C28_Witness ==
  /\ e_last.op = "similarity"
  /\ ~e_last.hit
  /\ \E old \in e_last.cache_before, new \in result_cache_ :
       /\ old.key = new.key
       /\ old.key = create_cache_key(e_last.s1, e_last.s2, e_last.algorithm,
                                     e_last.final_config)
       /\ old \notin result_cache_
       /\ new.timestamp >= old.timestamp + CACHE_TTL

=============================================================================
